---- MODULE Spec2Model ----
(***************************************************************************)
(* Model of the footbooker booking engine (src/src/index.js, the engine    *)
(* that starts at line 38 of that file), its date helpers                  *)
(* (src/src/utils.js) and the Session Client operations it calls           *)
(* (src/src/connection.js).                                                *)
(*                                                                         *)
(* One action is one callback of the node event loop: the handler of a     *)
(* response (or of a timer) runs to completion, up to and including the    *)
(* next request it sends.  The remote site, the retry timer, the deadline  *)
(* timer and the wall clock are the environment.                           *)
(*                                                                         *)
(* Time is counted in hours since 00:00 UTC of day 0, a Sunday.  A date    *)
(* string is a record [t, z]: z says whether the text carries the zone     *)
(* letter Z, t is the wall-clock reading of the text.                      *)
(*                                                                         *)
(* The remote answers every request either with a transport error or with  *)
(* an envelope {Code, Message, Data} (spec section 6); in SpecUnexpected   *)
(* it may also answer an availability query or a book request with a body  *)
(* that is no such envelope.                                               *)
(*                                                                         *)
(* Spec and SpecFair are the run of the engine.  The engine never reads    *)
(* the cookies, so sendRequest and its cookies are followed on their own   *)
(* in SpecClient; SpecConn applies the Session Client operations, SpecGMP  *)
(* the helper getMorePrioritized and SpecUtils the date helpers and the    *)
(* slot matcher to bounded inputs.                                         *)
(***************************************************************************)
EXTENDS Integers, Sequences, FiniteSets, TLC

\* ---------------------------------------------------------------- bounds
MaxPasses == 2        \* searching passes of the retry loop that are explored
MaxTicks == 1         \* hours the wall clock may advance during a run
MaxRequests == 3      \* requests sent when sendRequest is applied on its own

\* ------------------------------------------------------------- constants
HoursPerDay == 24
DaysPerWeek == 7
OK == 200             \* Code of a successful envelope
Today == DaysPerWeek              \* local day the run starts on, a Sunday
StartHour == HoursPerDay - 1      \* local hour at which the run starts

NoGuid == 0           \* undefined guid (falsy)
NoExit == 0 - 1       \* exitCode of a process that has not exited
NoDate == [t |-> 0, z |-> TRUE]

VARIABLES
    settings,           \* the merged settings (index.js:17)
    tz,                 \* system time zone: local time = UTC + tz hours
    now,                \* wall clock, an instant
    pc,                 \* the step of the waterfall that is waiting
    inflight,           \* the request whose response is awaited, or NoReq
    sent,               \* every request sent so far, in order
    authResponses,      \* what the remote answered to the initial request
                        \* and to login: [err, Code, Message], in order
    exited,             \* process.exit was called
    exitCode,           \* the code process.exit was called with
    bookedGuid,         \* keepTryingToBook's bookedGuid
    bookingInformation, \* result of the first queryBookInformation
    newGuid,            \* guid booked by the upgrade pass
    finalGuid,          \* guid handed to the final queryBookInformation
    result,             \* what the waterfall's final callback received
    passKind,           \* "main" (retry loop) or "upgrade"
    passList,           \* the list the current pass iterates
    passIdx,            \* entry of passList being attempted
    passBooked,         \* the pass's own bookedGuid
    passDate,           \* tryToBookInOrderSameDate's isoDateString
    availableSessions,  \* tryToBookInOrderSameDate's availableSessions
    attempts,           \* entries attempted in the current pass, in order
    passError,          \* the error the pass called back with (NoError: none)
    mainPasses,         \* passes started by the retry loop
    upgradePasses,      \* passes started by tryToRebookBetterOne
    logs,               \* log lines written (by tag)
    remoteBookings,     \* the remote's bookings made in this run
    nextGuid,           \* next booking identifier the remote hands out
    fnIn, fnOut,        \* argument and result of a helper applied on its own
    cookies,            \* connection.js: the cookies object, in key order
    reqState,           \* sendRequest on its own: "idle", "sent", "headers",
                        \* "errored"
    called,             \* sendRequest on its own: calls of the callback of
                        \* the latest request
    events,             \* sendRequest on its own: events emitted for it
    wire,               \* sendRequest on its own: cookie header of each request
    received,           \* sendRequest on its own: set-cookie of each response
    legacyPc,           \* footbooker.js: the step of the run that is waiting
    timers,             \* footbooker.js: the timers that are armed
    legacyGuid,         \* footbooker.js: keepTryingToBook's bookedGuid
    legacyKind,         \* footbooker.js: "main" (retry loop) or "rebook"
    legacyList,         \* footbooker.js: the list the current pass iterates
    legacyIdx,          \* footbooker.js: entry of the list being attempted
    legacyPassGuid,     \* footbooker.js: tryToBookInOrder's bookedGuid
    legacyPasses        \* footbooker.js: passes started by the retry loop

vars == <<settings, tz, now, pc, inflight, sent, exited, bookedGuid,
          bookingInformation, newGuid, finalGuid, result, passKind, passList,
          passIdx, passBooked, passDate, availableSessions, attempts,
          mainPasses, upgradePasses, logs, remoteBookings, nextGuid,
          fnIn, fnOut, exitCode, cookies, reqState, wire, received,
          authResponses, passError, called, events, legacyPc, timers,
          legacyGuid, legacyKind, legacyList, legacyIdx, legacyPassGuid,
          legacyPasses>>

\* ------------------------------------------------------ Date (JavaScript)

\* new Date(string): a string without zone is read as local time.
DateParse(s) == IF s.z THEN s.t ELSE s.t - tz

\* Date.prototype.toISOString: the UTC reading, with the zone letter.
toISOString(i) == [t |-> i, z |-> TRUE]

\* getUTCFullYear/Month/Date: the UTC calendar day of an instant.
UTCDay(i) == i \div HoursPerDay

\* getFullYear/Month/Date, toDateString: the local calendar day.
LocalDay(i) == (i + tz) \div HoursPerDay

\* Date.UTC(y, m, d): 00:00 UTC of a calendar day.
DateUTC(day) == day * HoursPerDay

\* ---------------------------------------------------------------- utils.js

dateAndTimeOrDateToDate(dateAndTime) ==
    toISOString(DateUTC(UTCDay(DateParse(dateAndTime))))

\* Shifting a local time to UTC but writing it without zone again.
localOrISOToISO_KeepsZone(localDateAndTime) ==
    [t |-> DateParse(localDateAndTime), z |-> localDateAndTime.z]

localOrISOToISO(localDateAndTime) == toISOString(DateParse(localDateAndTime))

\* Taking the UTC calendar day of the date instead of the local one.
datePlusTimeToDateAndTime_UTCDay(dateString, timeString) ==
    LET day == UTCDay(DateParse(dateString))
    IN  toISOString(DateParse([t |-> DateUTC(day) + timeString.h,
                               z |-> timeString.z]))

\* date.toDateString() + " " + timeString, parsed again: the local calendar
\* day of the date with the time of day, local unless the time carries Z.
datePlusTimeToDateAndTime(dateString, timeString) ==
    LET day == LocalDay(DateParse(dateString))
    IN  toISOString(DateParse([t |-> DateUTC(day) + timeString.h,
                               z |-> timeString.z]))

\* A string is the sequence of its characters; a value that may be a string
\* or a number carries its type.
String(chars) == [type |-> "string", value |-> chars]
Number(n) == [type |-> "number", value |-> n]
typeof(x) == x.type

\* String.prototype.toLowerCase, for the capitals of the weekday names.
LowerOf ==
    [S |-> "s", M |-> "m", T |-> "t", W |-> "w", F |-> "f", U |-> "u",
     N |-> "n", D |-> "d", A |-> "a", Y |-> "y", E |-> "e", O |-> "o"]

toLowerCase(s) ==
    [i \in DOMAIN s |-> IF s[i] \in DOMAIN LowerOf THEN LowerOf[s[i]] ELSE s[i]]

\* const days = {sunday: 0, ..., saturday: 6}: the key of index k is days[k + 1]
days ==
    << <<"s", "u", "n", "d", "a", "y">>,
       <<"m", "o", "n", "d", "a", "y">>,
       <<"t", "u", "e", "s", "d", "a", "y">>,
       <<"w", "e", "d", "n", "e", "s", "d", "a", "y">>,
       <<"t", "h", "u", "r", "s", "d", "a", "y">>,
       <<"f", "r", "i", "d", "a", "y">>,
       <<"s", "a", "t", "u", "r", "d", "a", "y">> >>

\* days[key]; undefined for a key the object does not have
undefined == 0 - 1
daysAt(key) ==
    IF \E k \in DOMAIN days : days[k] = key
    THEN (CHOOSE k \in DOMAIN days : days[k] = key) - 1
    ELSE undefined

\* Adding a whole week whenever the weekday is not the one of today + offset.
nextDateForDayIndex_WeekLater(dayIndex, offset) ==
    LET day0      == LocalDay(now) + offset
        returnDay == day0 % DaysPerWeek
        day1      == IF dayIndex # returnDay
                     THEN day0 + DaysPerWeek
                            + ((dayIndex + (DaysPerWeek - returnDay)) % DaysPerWeek)
                     ELSE day0
    IN  toISOString(DateUTC(day1))

\* getNextDateForWeekday from returnDate on (utils.js:86-97): today plus
\* offset on the local calendar, moved on to the weekday, as 00:00 UTC of
\* that calendar date.
nextDateForDayIndex(dayIndex, offset) ==
    LET day0      == LocalDay(now) + offset
        returnDay == day0 % DaysPerWeek
        day1      == IF dayIndex # returnDay
                     THEN day0 + ((dayIndex + (DaysPerWeek - returnDay)) % DaysPerWeek)
                     ELSE day0
    IN  toISOString(DateUTC(day1))

\* The weekday is a name or an index (0 = Sunday).  threw: the Error
\* '"<weekday>" is not a valid input.' is thrown and no date is returned.
getNextDateForWeekday(weekday, offset) ==
    LET dayIndex == IF typeof(weekday) = "string"
                    THEN daysAt(toLowerCase(weekday.value))
                    ELSE weekday.value
    IN  IF typeof(weekday) = "string" /\ dayIndex = undefined
        THEN [threw |-> TRUE, date |-> NoDate]
        ELSE [threw |-> FALSE, date |-> nextDateForDayIndex(dayIndex, offset)]

\* new Date(a).toISOString() === new Date(b).toISOString()
comparatorDateAndTime(book, bookedDateAndTime) ==
    toISOString(DateParse(book)) = toISOString(DateParse(bookedDateAndTime))

comparatorTime(book, bookedDateAndTime) ==
    LET bookDateAndTime == datePlusTimeToDateAndTime(bookedDateAndTime, book)
    IN  toISOString(DateParse(bookDateAndTime))
          = toISOString(DateParse(bookedDateAndTime))

\* The forEach of getMorePrioritized, entry by entry: acc is
\* [found, morePrioritized] after the entries before i.
RECURSIVE MorePrioritizedFrom(_, _, _, _, _)
MorePrioritizedFrom(booked, pref, isTime, i, acc) ==
    IF i > Len(pref) THEN acc.morePrioritized
    ELSE LET book == pref[i]
             eq   == IF isTime THEN comparatorTime(book, booked)
                     ELSE comparatorDateAndTime(book, booked)
         IN  IF acc.found
             THEN MorePrioritizedFrom(booked, pref, isTime, i + 1, acc)
             ELSE IF eq
                  THEN MorePrioritizedFrom(booked, pref, isTime, i + 1,
                         [acc EXCEPT !.found = TRUE])
                  ELSE MorePrioritizedFrom(booked, pref, isTime, i + 1,
                         [acc EXCEPT !.morePrioritized = Append(@, book)])

\* Leaving out every entry equal to the booked one, not stopping at the first.
getMorePrioritized_Filter(bookedDateAndTime, bookingPreference, isTime) ==
    SelectSeq(bookingPreference,
              LAMBDA book : ~(IF isTime
                              THEN comparatorTime(book, bookedDateAndTime)
                              ELSE comparatorDateAndTime(book, bookedDateAndTime)))

getMorePrioritized(bookedDateAndTime, bookingPreference, isTime) ==
    MorePrioritizedFrom(bookedDateAndTime, bookingPreference, isTime, 1,
                        [found |-> FALSE, morePrioritized |-> <<>>])

getMorePrioritizedDateAndTime(bookedDateAndTime, bookingPreferenceDateAndTime) ==
    getMorePrioritized(bookedDateAndTime, bookingPreferenceDateAndTime, FALSE)

getMorePrioritizedTime(bookedDateAndTime, bookingPreferenceTime) ==
    getMorePrioritized(bookedDateAndTime, bookingPreferenceTime, TRUE)

\* ------------------------------------------------------------ connection.js

Req(op, date, guid, reason) ==
    [op |-> op, date |-> date, guid |-> guid, reason |-> reason]

NoReq == Req("none", NoDate, NoGuid, "")

\* sendRequest hands its callback (err) or (null, body).  A response is
\* [err, Code, Message, Data]; Data is read only when err is FALSE and Code
\* is OK.  An operation hands its own callback
\*   err, error : whether the first argument is an error, and the error
\*   hasData    : whether a second argument is passed
\* and the second argument under the operation's own name for it.

\* null, the first argument of a successful callback
NoError == [name |-> "", prefix |-> "", Code |-> 0, Message |-> ""]

\* The error the https request was given by the transport.
TransportError ==
    [name |-> "Error", prefix |-> "", Code |-> 0, Message |-> "ECONNREFUSED"]

\* new Error(prefix + JSON.stringify(data))
EnvelopeError(prefix, resp) ==
    [name |-> "Error", prefix |-> prefix, Code |-> resp.Code,
     Message |-> resp.Message]

\* The first argument of an operation's callback.
CallbackError(prefix, resp) ==
    IF resp.err THEN TransportError
    ELSE IF resp.Code # OK THEN EnvelopeError(prefix, resp)
    ELSE NoError

\* getInitialCookies: callback(err)
getInitialCookies(resp) ==
    [err |-> resp.err,
     error |-> IF resp.err THEN TransportError ELSE NoError,
     hasData |-> FALSE]

\* A login that takes every envelope for a success.
login_IgnoresCode(resp) ==
    [err |-> resp.err,
     error |-> IF resp.err THEN TransportError ELSE NoError,
     hasData |-> FALSE]

\* login: an error of the transport, or a Code other than 200
login(resp) ==
    [err |-> resp.err \/ resp.Code # OK,
     error |-> CallbackError("Login failed: ", resp),
     hasData |-> FALSE]

\* Keeping only the sessions with a place left.
listAvailableBookings_Positive(resp) ==
    IF resp.err \/ resp.Code # OK
    THEN [err |-> TRUE,
          error |-> CallbackError("List available bookings failed: ", resp),
          hasData |-> FALSE, availables |-> <<>>]
    ELSE LET sel == SelectSeq(resp.Data, LAMBDA session : session.Availability > 0)
         IN  [err |-> FALSE, error |-> NoError, hasData |-> TRUE,
              availables |-> [k \in 1..Len(sel) |->
                                [guid |-> sel[k].Guid,
                                 startTime |-> sel[k].StartDateTime]]]

\* listAvailableBookings: the sessions of Data with Availability >= 0
listAvailableBookings(resp) ==
    IF resp.err \/ resp.Code # OK
    THEN [err |-> TRUE,
          error |-> CallbackError("List available bookings failed: ", resp),
          hasData |-> FALSE, availables |-> <<>>]
    ELSE LET sel == SelectSeq(resp.Data, LAMBDA session : session.Availability >= 0)
         IN  [err |-> FALSE, error |-> NoError, hasData |-> TRUE,
              availables |-> [k \in 1..Len(sel) |->
                                [guid |-> sel[k].Guid,
                                 startTime |-> sel[k].StartDateTime]]]

\* A book operation that does not look at the Code.
sendBookRequest_IgnoresCode(resp) ==
    [err |-> resp.err,
     error |-> IF resp.err THEN TransportError ELSE NoError,
     hasData |-> ~resp.err, guid |-> resp.Data.Guid]

\* sendBookRequest: data.Data.Guid
sendBookRequest(resp) ==
    IF resp.err \/ resp.Code # OK
    THEN [err |-> TRUE,
          error |-> CallbackError("Send book request failed: ", resp),
          hasData |-> FALSE, guid |-> NoGuid]
    ELSE [err |-> FALSE, error |-> NoError, hasData |-> TRUE,
          guid |-> resp.Data.Guid]

\* queryBookInformation: data.Data
queryBookInformation(resp) ==
    IF resp.err \/ resp.Code # OK
    THEN [err |-> TRUE,
          error |-> CallbackError("Query book information failed: ", resp),
          hasData |-> FALSE,
          data |-> [Guid |-> NoGuid, StartDateTime |-> NoDate]]
    ELSE [err |-> FALSE, error |-> NoError, hasData |-> TRUE,
          data |-> resp.Data]

\* cancelBooking(guid, reason, callback): callback(err) on a transport error
\* or a non-success status, callback() otherwise (spec 4.1).
cancelBooking(resp) ==
    [err |-> resp.err \/ resp.Code # OK,
     error |-> CallbackError("Cancel booking failed: ", resp),
     hasData |-> FALSE]

\* ------------------------------------------------------------- the remote

\* Hours (UTC) at which the site has a session on every date, in the order
\* of its answer.
SessionHours == <<19, 20, 21>>

Availabilities == {-1, 0}

ErrResp == [err |-> TRUE, Code |-> 0, Message |-> "", Data |-> <<>>]

\* An envelope with a Code other than 200.
FailResp ==
    [err |-> FALSE, Code |-> 500, Message |-> "Unknown Error Occurred",
     Data |-> <<>>]

\* The envelope of a refused login.
LoginFailResp ==
    [err |-> FALSE, Code |-> 401,
     Message |-> "Email or password was not recognised, please try again",
     Data |-> <<>>]

\* The part of a response every operation reads.
Envelope(resp) == [err |-> resp.err, Code |-> resp.Code, Message |-> resp.Message]

OkResp(data) == [err |-> FALSE, Code |-> OK, Message |-> "Success", Data |-> data]

\* The sessions of one date; a session's Guid is its start instant.
SessionData(date, avail) ==
    [k \in 1..Len(SessionHours) |->
        [Guid |-> date.t + SessionHours[k],
         StartDateTime |-> toISOString(date.t + SessionHours[k]),
         Availability |-> avail[k]]]

\* ----------------------------------------------------- settings of a run

Monday == Today + 1

A == [t |-> DateUTC(Monday) + 20, z |-> FALSE]
B == [t |-> DateUTC(Monday) + 21, z |-> FALSE]
C == [t |-> DateUTC(Monday) + 20, z |-> TRUE]
D == [t |-> DateUTC(Monday + 1) + 20, z |-> FALSE]

T20 == [h |-> 20, z |-> FALSE]
T21 == [h |-> 21, z |-> FALSE]
T20Z == [h |-> 20, z |-> TRUE]

DatePrefLists == {<<>>, <<A>>, <<A, B>>, <<A, B, D>>, <<B, C, A>>, <<A, B, A>>}
TimePrefLists == {<<T20>>, <<T20, T21>>, <<T21, T20Z, T20>>}
TimeZones == {-1, 0, 1}

Settings ==
    [strategy : {"dateAndTimeOrder"}, bookingPreference : DatePrefLists,
     weekday : {Number(1)}, offset : {1}, timePreference : {<<>>},
     reasonToCancel : {"Any reason"}]
    \cup
    [strategy : {"weekdayAndTimeOrder"}, bookingPreference : {<<>>},
     weekday : {Number(1)}, offset : {1}, timePreference : TimePrefLists,
     reasonToCancel : {"Any reason"}]

NoInfo == [Guid |-> NoGuid, StartDateTime |-> NoDate]
NoResult == [err |-> FALSE, error |-> NoError, data |-> NoInfo]

\* ------------------------------------------------------------------- Init

\* footbooker.js before the script has run.
LegacyIdle ==
    /\ legacyPc = "init" /\ timers = {} /\ legacyGuid = NoGuid
    /\ legacyKind = "none" /\ legacyList = <<>> /\ legacyIdx = 0
    /\ legacyPassGuid = NoGuid /\ legacyPasses = 0

\* connection.js:10, let cookies = {}; no request was sent.
ClientIdle ==
    /\ cookies = <<>> /\ reqState = "idle" /\ wire = <<>> /\ received = <<>>
    /\ called = 0 /\ events = {}

Idle ==
    /\ pc = "init" /\ inflight = NoReq /\ sent = <<>> /\ authResponses = <<>>
    /\ exited = FALSE /\ exitCode = NoExit
    /\ bookedGuid = NoGuid /\ bookingInformation = NoInfo
    /\ newGuid = NoGuid /\ finalGuid = NoGuid /\ result = NoResult
    /\ passKind = "none" /\ passList = <<>> /\ passIdx = 0
    /\ passBooked = NoGuid /\ passDate = NoDate /\ availableSessions = <<>>
    /\ passError = NoError
    /\ attempts = <<>> /\ mainPasses = 0 /\ upgradePasses = 0 /\ logs = {}
    /\ remoteBookings = {} /\ nextGuid = 1

Init ==
    /\ settings \in Settings
    /\ tz \in TimeZones
    /\ now = DateUTC(Today) + StartHour - tz
    /\ Idle
    /\ fnIn = <<>> /\ fnOut = <<>>
    /\ ClientIdle
    /\ LegacyIdle

\* ----------------------------------------------- index.js: the engine

\* Sending the request twice.
Send_Fanout(req) == inflight' = req /\ sent' = sent \o <<req, req>>

Send(req) == inflight' = req /\ sent' = Append(sent, req)

NoSend == inflight' = NoReq /\ UNCHANGED sent

\* Handing the book request the desired date and time instead of its date.
tryToBookGivenAvailability_DateAndTime(dateAndTime, sessions) ==
    LET isoDateAndTime == localOrISOToISO(dateAndTime)
        hits == {k \in 1..Len(sessions) :
                   toISOString(DateParse(sessions[k].startTime))
                     = toISOString(DateParse(isoDateAndTime))}
        last == CHOOSE k \in hits : \A m \in hits : m <= k
    IN  [guid |-> IF hits = {} THEN NoGuid ELSE sessions[last].guid,
         date |-> isoDateAndTime]

\* Comparing the start time with the desired date-time as written.
tryToBookGivenAvailability_ByText(dateAndTime, sessions) ==
    LET isoDateAndTime == localOrISOToISO(dateAndTime)
        isoDateString  == dateAndTimeOrDateToDate(isoDateAndTime)
        hits == {k \in 1..Len(sessions) : sessions[k].startTime = dateAndTime}
        last == CHOOSE k \in hits : \A m \in hits : m <= k
    IN  [guid |-> IF hits = {} THEN NoGuid ELSE sessions[last].guid,
         date |-> isoDateString]

\* tryToBookGivenAvailability: the session to book (the last one whose start
\* is the desired instant) and the Date of the book request; NoGuid when no
\* session matches.
tryToBookGivenAvailability(dateAndTime, sessions) ==
    LET isoDateAndTime == localOrISOToISO(dateAndTime)
        isoDateString  == dateAndTimeOrDateToDate(isoDateAndTime)
        hits == {k \in 1..Len(sessions) :
                   toISOString(DateParse(sessions[k].startTime))
                     = toISOString(DateParse(isoDateAndTime))}
        last == CHOOSE k \in hits : \A m \in hits : m <= k
    IN  [guid |-> IF hits = {} THEN NoGuid ELSE sessions[last].guid,
         date |-> isoDateString]

\* Sending an availability query at once, without waiting for the timer.
armRetryTimer_QueriesAtOnce ==
    pc' = "sleep" /\ Send(Req("list", NoDate, NoGuid, ""))

\* The iteratee of async.whilst in keepTryingToBook: setTimeout(...,
\* retryTimeout); nothing is sent until the timer fires.
armRetryTimer == pc' = "sleep" /\ NoSend

\* A guard that lets the iteratee run although the pass has booked.
iterateeSkips_Never(booked) == FALSE

\* The guard of the eachSeries iteratee: if (bookedGuid) return callback()
iterateeSkips(booked) == booked # NoGuid

\* A test that ends the loop although nothing is booked.
whilstTest_GivesUp(booked) == FALSE

\* A test that goes on although a pass has booked.
whilstTest_NeverStops(booked) == TRUE

\* The test of async.whilst in keepTryingToBook
whilstTest(booked) == booked = NoGuid

\* Handing on no guid when the upgrade pass failed.
rebookOnError_Undefined(old) == NoGuid

\* tryToRebookBetterOne: the guid handed on when the upgrade pass failed
rebookOnError(old) == old

\* Cancelling the booking that was just made.
rebookCancels_New(old, new) == new

\* tryToRebookBetterOne: the booking that is cancelled
rebookCancels(old, new) == old

\* Falling back to the original booking when the cancel failed.
rebookOnCancelError_Old(old, new) == old

\* tryToRebookBetterOne: the guid handed on when the cancel failed
rebookOnCancelError(old, new) == new

\* Handing on the cancelled booking.
rebookOnCancelled_Old(old, new) == old

\* tryToRebookBetterOne: the guid handed on when the cancel succeeded
rebookOnCancelled(old, new) == new

\* new Error('None of the bookings was successful')
NoneSuccessful ==
    [name |-> "Error", prefix |-> "", Code |-> 0,
     Message |-> "None of the bookings was successful"]

\* Calling back with the guid, or without error, also when nothing is booked.
PassResult_NeverFails(booked) == NoError

\* The final callback of eachSeries in tryToBookInOrder and
\* tryToBookInOrderSameDate: the error a pass over the whole list ends with.
PassResult(booked) == IF booked = NoGuid THEN NoneSuccessful ELSE NoError

\* log.log('warn', err) in keepTryingToBook
WarnLine(err) == "warn: " \o (IF err.prefix # "" THEN err.prefix ELSE err.Message)

\* The final callbacks of a pass and what they continue with.  booked is the
\* pass's bookedGuid, err the error the pass calls back with, old the guid
\* tryToRebookBetterOne was given.
\*   retry loop: keepTryingToBook's callback of bookingLambda, then whilst
\*   upgrade:    tryToRebookBetterOne's callback of bookingLambda
EndPass(kind, booked, err, old, lg) ==
    /\ passBooked' = booked
    /\ passError' = err
    /\ IF kind = "main"
       THEN /\ bookedGuid' = IF booked = NoGuid THEN bookedGuid ELSE booked
            /\ logs' = IF err # NoError THEN lg \cup {WarnLine(err)} ELSE lg
            /\ IF whilstTest(bookedGuid')
               THEN armRetryTimer
               ELSE pc' = "query1"
                    /\ Send(Req("query", NoDate, bookedGuid', ""))
            /\ UNCHANGED <<newGuid, finalGuid>>
       ELSE IF booked = NoGuid
            THEN /\ logs' = lg \cup {"info: keeping the previous one"}
                 /\ finalGuid' = rebookOnError(old)
                 /\ pc' = "query2"
                 /\ Send(Req("query", NoDate, finalGuid', ""))
                 /\ UNCHANGED <<bookedGuid, newGuid>>
            ELSE /\ newGuid' = booked
                 /\ pc' = "cancel"
                 /\ Send(Req("cancel", NoDate, rebookCancels(old, booked),
                             settings.reasonToCancel))
                 /\ logs' = lg
                 /\ UNCHANGED <<bookedGuid, finalGuid>>

\* tryToBookInOrder: the eachSeries of checkAvailabilityAndTryToBook from
\* entry i on.  An entry that is not skipped is attempted: its availability
\* query is sent; after the last entry the pass ends.
IterateInOrder(kind, list, i, booked, att, old, lg) ==
    IF i <= Len(list) /\ ~iterateeSkips(booked)
    THEN /\ passIdx' = i
         /\ attempts' = Append(att, i)
         /\ passBooked' = booked
         /\ passError' = NoError
         /\ pc' = "list"
         /\ Send(Req("list", dateAndTimeOrDateToDate(list[i]), NoGuid, ""))
         /\ logs' = lg
         /\ UNCHANGED <<bookedGuid, newGuid, finalGuid>>
    ELSE /\ passIdx' = Len(list) + 1
         /\ attempts' = att
         /\ EndPass(kind, booked, PassResult(booked), old, lg)

\* tryToBookInOrderSameDate: the eachSeries over the times from entry i on,
\* up to the first entry for which a book request is sent.  Yields that
\* entry (Len + 1 if none), the entries attempted on the way and the match.
RECURSIVE SameDateNext(_, _, _, _, _, _)
SameDateNext(list, i, booked, sessions, isoDateString, att) ==
    IF i > Len(list)
    THEN [idx |-> i, att |-> att, guid |-> NoGuid, date |-> NoDate]
    ELSE IF iterateeSkips(booked)
         THEN SameDateNext(list, i + 1, booked, sessions, isoDateString, att)
         ELSE LET isoDateAndTime ==
                      datePlusTimeToDateAndTime(isoDateString, list[i])
                  m == tryToBookGivenAvailability(isoDateAndTime, sessions)
              IN  IF m.guid # NoGuid
                  THEN [idx |-> i, att |-> Append(att, i),
                        guid |-> m.guid, date |-> m.date]
                  ELSE SameDateNext(list, i + 1, booked, sessions,
                                    isoDateString, Append(att, i))

IterateSameDate(kind, list, i, booked, sessions, isoDateString, att, old, lg) ==
    LET n == SameDateNext(list, i, booked, sessions, isoDateString, att)
    IN  /\ passIdx' = n.idx
        /\ attempts' = n.att
        /\ IF n.idx <= Len(list)
           THEN /\ passBooked' = booked
                /\ passError' = NoError
                /\ pc' = "book"
                /\ Send(Req("book", n.date, n.guid, ""))
                /\ logs' = lg
                /\ UNCHANGED <<bookedGuid, newGuid, finalGuid>>
           ELSE EndPass(kind, booked, PassResult(booked), old, lg)

\* bookingLambda: start one searching pass over list.
StartPass(kind, list, old, lg) ==
    /\ passKind' = kind
    /\ passList' = list
    /\ IF settings.strategy = "dateAndTimeOrder"
       THEN /\ passDate' = NoDate
            /\ availableSessions' = <<>>
            /\ IterateInOrder(kind, list, 1, NoGuid, <<>>, old, lg)
       ELSE \* tryToBookInOrderWeekday, tryToBookInOrderSameDate
            LET dateString == getNextDateForWeekday(settings.weekday,
                                                    settings.offset).date
            IN  /\ passDate' = dateAndTimeOrDateToDate(dateString)
                /\ availableSessions' = <<>>
                /\ passIdx' = 0
                /\ attempts' = <<>>
                /\ passBooked' = NoGuid
                /\ passError' = NoError
                /\ pc' = "list"
                /\ Send(Req("list", passDate', NoGuid, ""))
                /\ logs' = lg \cup {"info: Trying to book for weekday"}
                /\ UNCHANGED <<bookedGuid, newGuid, finalGuid>>

\* The final callback of the waterfall.
Finish(error, data) ==
    /\ pc' = IF error # NoError THEN "failed" ELSE "done"
    /\ result' = [err |-> error # NoError, error |-> error, data |-> data]
    /\ logs' = logs \cup {IF error # NoError THEN "error" ELSE "info: Result"}
    /\ NoSend

Config == <<settings, tz>>
Remote == <<remoteBookings, nextGuid>>
Pass == <<passKind, passList, passIdx, passBooked, passDate,
          availableSessions, attempts, passError>>
Fn == <<fnIn, fnOut>>
Client == <<cookies, reqState, wire, received, called, events>>
Legacy == <<legacyPc, timers, legacyGuid, legacyKind, legacyList, legacyIdx,
            legacyPassGuid, legacyPasses>>

\* perform(): dateAndTimeOrder / weekdayAndTimeOrder start the waterfall
\* with getInitialCookies.
perform ==
    /\ pc = "init" /\ ~exited
    /\ pc' = "cookies"
    /\ Send(Req("cookies", NoDate, NoGuid, ""))
    /\ logs' = logs \cup {"info: Starting strategy"}
    /\ UNCHANGED <<Config, authResponses, now, exited, exitCode, bookedGuid, bookingInformation, newGuid,
                   finalGuid, result, Pass, mainPasses, upgradePasses, Remote, Fn, Client, Legacy>>

\* Response of GET /Accounts/Login.aspx: login is sent, or the run fails.
InitialCookiesResponse ==
    /\ pc = "cookies" /\ ~exited
    /\ \E resp \in {ErrResp, OkResp(<<>>)} :
         /\ authResponses' = Append(authResponses, Envelope(resp))
         /\ IF getInitialCookies(resp).err
            THEN Finish(getInitialCookies(resp).error, NoInfo)
            ELSE /\ pc' = "login"
                 /\ Send(Req("login", NoDate, NoGuid, ""))
                 /\ UNCHANGED <<result, logs>>
    /\ UNCHANGED <<Config, now, exited, exitCode, bookedGuid,
                   bookingInformation, newGuid, finalGuid, Pass, mainPasses,
                   upgradePasses, Remote, Fn, Client, Legacy>>

\* Response of validatelogin: keepTryingToBook starts, or the run fails.
LoginResponse ==
    /\ pc = "login" /\ ~exited
    /\ \E resp \in {ErrResp, FailResp, LoginFailResp, OkResp(<<>>)} :
         /\ authResponses' = Append(authResponses, Envelope(resp))
         /\ IF login(resp).err
            THEN Finish(login(resp).error, NoInfo)
            ELSE /\ logs' = logs \cup {"info: Starting infinite loop"}
                 /\ IF whilstTest(bookedGuid)
                    THEN armRetryTimer
                    ELSE pc' = "query1"
                         /\ Send(Req("query", NoDate, bookedGuid, ""))
                 /\ UNCHANGED result
    /\ UNCHANGED <<Config, now, exited, exitCode, bookedGuid,
                   bookingInformation, newGuid, finalGuid, Pass, mainPasses,
                   upgradePasses, Remote, Fn, Client, Legacy>>

\* A list that loses its first entry with every pass made over it.
configuredPreference_Consumed ==
    LET list == IF settings.strategy = "dateAndTimeOrder"
                THEN settings.bookingPreference ELSE settings.timePreference
    IN  IF mainPasses > 0 /\ list # <<>> THEN Tail(list) ELSE list

\* The list the bookingLambda closures of a strategy hold:
\* settings.dateAndTimeOrder.bookingPreference or
\* settings.weekdayAndTimeOrder.timePreference.
configuredPreference ==
    IF settings.strategy = "dateAndTimeOrder"
    THEN settings.bookingPreference ELSE settings.timePreference

\* The setTimeout of keepTryingToBook fires: one searching pass starts.
RetryTimer ==
    /\ pc = "sleep" /\ ~exited
    /\ mainPasses < MaxPasses
    /\ mainPasses' = mainPasses + 1
    /\ StartPass("main", configuredPreference, NoGuid, logs)
    /\ UNCHANGED <<Config, authResponses, now, exited, exitCode, bookingInformation, result,
                   upgradePasses, Remote, Fn, Client, Legacy>>

\* What the site may answer to ListAvailableSessions for a date.
ListResponses(date) ==
    {ErrResp, FailResp}
    \cup {OkResp(SessionData(date, avail)) :
            avail \in [1..Len(SessionHours) -> Availabilities]}

\* Response of ListAvailableSessions.
\*   dateAndTimeOrder: checkAvailabilityAndTryToBook's waterfall goes on to
\*     tryToBookGivenAvailability; an error fails the entry.
\*   weekdayAndTimeOrder: tryToBookInOrderSameDate's waterfall goes on to
\*     the loop over the times; an error fails the pass.
ListResponse ==
    /\ pc = "list" /\ ~exited
    /\ \E resp \in ListResponses(inflight.date) :
         LET r   == listAvailableBookings(resp)
             old == bookingInformation.Guid
         IN  IF settings.strategy = "dateAndTimeOrder"
             THEN LET m == tryToBookGivenAvailability(passList[passIdx],
                                                      r.availables)
                  IN  /\ UNCHANGED availableSessions
                      /\ IF ~r.err /\ m.guid # NoGuid
                         THEN /\ pc' = "book"
                              /\ Send(Req("book", m.date, m.guid, ""))
                              /\ UNCHANGED <<passIdx, attempts, passBooked, passError,
                                             bookedGuid, newGuid, finalGuid, logs>>
                         ELSE IterateInOrder(passKind, passList, passIdx + 1,
                                 passBooked, attempts, old,
                                 logs \cup {"info: Booking failed"})
             ELSE IF r.err
                  THEN /\ UNCHANGED <<availableSessions, passIdx, attempts>>
                       /\ EndPass(passKind, NoGuid, r.error, old, logs)
                  ELSE /\ availableSessions' = r.availables
                       /\ IterateSameDate(passKind, passList, 1, NoGuid,
                             r.availables, passDate, <<>>, old, logs)
    /\ UNCHANGED <<Config, authResponses, now, exited, exitCode, bookingInformation, result, passKind,
                   passList, passDate, mainPasses, upgradePasses, Remote, Fn, Client, Legacy>>

\* What the site may answer to AddBooking: a refusal, or the identifier
\* of the booking it created.
BookResponses ==
    {[ErrResp EXCEPT !.Data = [Guid |-> NoGuid]],
     [FailResp EXCEPT !.Data = [Guid |-> NoGuid]],
     OkResp([Guid |-> nextGuid])}

\* Response of AddBooking.  The callback of the entry sets the pass's
\* bookedGuid or logs the failure; eachSeries goes on with the next entry.
BookResponse ==
    /\ pc = "book" /\ ~exited
    /\ \E resp \in BookResponses :
         LET created == ~resp.err /\ resp.Code = OK
             r    == sendBookRequest(resp)
             old  == bookingInformation.Guid
             b    == IF r.err THEN passBooked ELSE r.guid
             lg   == logs \cup {IF r.err THEN "info: Booking failed"
                                ELSE "info: Booking succeeded"}
         IN  /\ IF created
                THEN /\ remoteBookings' = remoteBookings \cup
                            {[guid |-> nextGuid,
                              start |-> toISOString(inflight.guid)]}
                     /\ nextGuid' = nextGuid + 1
                ELSE UNCHANGED Remote
             /\ IF settings.strategy = "dateAndTimeOrder"
                THEN IterateInOrder(passKind, passList, passIdx + 1, b,
                                    attempts, old, lg)
                ELSE IterateSameDate(passKind, passList, passIdx + 1, b,
                        availableSessions, passDate, attempts, old, lg)
    /\ UNCHANGED <<Config, authResponses, now, exited, exitCode, bookingInformation, result, passKind,
                   passList, passDate, availableSessions, mainPasses,
                   upgradePasses, Fn, Client, Legacy>>

\* What the site may answer to GetBookingInformation for a guid.
QueryResponses(guid) ==
    {[ErrResp EXCEPT !.Data = NoInfo], [FailResp EXCEPT !.Data = NoInfo]}
    \cup {OkResp([Guid |-> b.guid, StartDateTime |-> b.start]) :
            b \in {x \in remoteBookings : x.guid = guid}}

\* Response of the first GetBookingInformation: tryToRebookBetterOne runs
\* the upgrade pass over the more prioritized entries, or the run fails.
Query1Response ==
    /\ pc = "query1" /\ ~exited
    /\ \E resp \in QueryResponses(inflight.guid) :
         LET r == queryBookInformation(resp)
         IN  IF r.err
             THEN /\ Finish(r.error, NoInfo)
                  /\ UNCHANGED <<bookingInformation, upgradePasses, Pass,
                                 bookedGuid, newGuid, finalGuid>>
             ELSE /\ bookingInformation' = r.data
                  /\ upgradePasses' = upgradePasses + 1
                  /\ StartPass("upgrade",
                        IF settings.strategy = "dateAndTimeOrder"
                        THEN getMorePrioritizedDateAndTime(r.data.StartDateTime,
                                 configuredPreference)
                        ELSE getMorePrioritizedTime(r.data.StartDateTime,
                                 configuredPreference),
                        r.data.Guid,
                        logs \cup {"info: Trying to book a better spot"})
                  /\ UNCHANGED result
    /\ UNCHANGED <<Config, authResponses, now, exited, exitCode, mainPasses, Remote, Fn, Client, Legacy>>

\* Response of the cancel request: the site removed the booking, or it did
\* not.  Either way the final GetBookingInformation is sent.
CancelResponse ==
    /\ pc = "cancel" /\ ~exited
    /\ \E resp \in {ErrResp, FailResp, OkResp(<<>>)} :
         LET cancelled == ~resp.err /\ resp.Code = OK
             old  == bookingInformation.Guid
         IN  /\ cancelled => \E b \in remoteBookings : b.guid = inflight.guid
             /\ remoteBookings' =
                  IF cancelled
                  THEN {b \in remoteBookings : b.guid # inflight.guid}
                  ELSE remoteBookings
             /\ IF cancelBooking(resp).err
                THEN /\ logs' = logs \cup {"warn: please cancel manually"}
                     /\ finalGuid' = rebookOnCancelError(old, newGuid)
                ELSE /\ logs' = logs \cup {"info: Better spot booked successfully"}
                     /\ finalGuid' = rebookOnCancelled(old, newGuid)
             /\ pc' = "query2"
             /\ Send(Req("query", NoDate, finalGuid', ""))
    /\ UNCHANGED <<Config, authResponses, now, exited, exitCode, bookedGuid, bookingInformation, newGuid,
                   result, Pass, mainPasses, upgradePasses, nextGuid, Fn, Client, Legacy>>

\* Response of the final GetBookingInformation: the waterfall's final callback.
Query2Response ==
    /\ pc = "query2" /\ ~exited
    /\ \E resp \in QueryResponses(inflight.guid) :
         LET r == queryBookInformation(resp)
         IN  Finish(r.error, r.data)
    /\ UNCHANGED <<Config, authResponses, now, exited, exitCode, bookedGuid, bookingInformation, newGuid,
                   finalGuid, Pass, mainPasses, upgradePasses, Remote, Fn, Client, Legacy>>

\* A deadline that writes its log line and lets the process run on.
Timeout_LogsOnly ==
    /\ pc # "init" /\ ~exited
    /\ "error: Timed out before being able to make a booking" \notin logs
    /\ logs' = logs \cup {"error: Timed out before being able to make a booking"}
    /\ UNCHANGED <<Config, authResponses, now, pc, inflight, sent, exited,
                   exitCode, bookedGuid, bookingInformation, newGuid, finalGuid,
                   result, Pass, mainPasses, upgradePasses, Remote, Fn, Client, Legacy>>

\* The timer of index.js:31 fires: the log line, then process.exit(0).
Timeout ==
    /\ pc # "init" /\ ~exited
    /\ exited' = TRUE
    /\ exitCode' = 0
    /\ logs' = logs \cup {"error: Timed out before being able to make a booking"}
    /\ UNCHANGED <<Config, authResponses, now, pc, inflight, sent, bookedGuid,
                   bookingInformation, newGuid, finalGuid, result, Pass,
                   mainPasses, upgradePasses, Remote, Fn, Client, Legacy>>

\* The wall clock advances by an hour.  The engine reads the clock only when
\* a pass starts (getNextDateForWeekday), so the hour is let pass while the
\* retry timer or the first details query is waiting.
Tick ==
    /\ pc \in {"sleep", "query1"} /\ ~exited
    /\ now < DateUTC(Today) + StartHour - tz + MaxTicks
    /\ now' = now + 1
    /\ UNCHANGED <<Config, authResponses, pc, inflight, sent, exited, exitCode, bookedGuid,
                   bookingInformation, newGuid, finalGuid, result, Pass,
                   mainPasses, upgradePasses, logs, Remote, Fn, Client, Legacy>>

Next ==
    \/ perform
    \/ InitialCookiesResponse
    \/ LoginResponse
    \/ RetryTimer
    \/ ListResponse
    \/ BookResponse
    \/ Query1Response
    \/ CancelResponse
    \/ Query2Response
    \/ Timeout
    \/ Tick

Spec == Init /\ [][Next]_vars

\* The retry timer of keepTryingToBook is a setTimeout of a live process: it
\* fires unless the process exits first.
SpecFair == Spec /\ WF_vars(RetryTimer)

\* ------------------------------------- getMorePrioritized applied on its own

\* Start times a booking may have: as the site reports them, and one written
\* without zone.
BookedTimes ==
    {[t |-> DateUTC(day) + h, z |-> TRUE] : day \in {Monday, Monday + 1}, h \in 19..22}
    \cup {A}

InitGMP ==
    /\ settings \in Settings
    /\ tz \in TimeZones
    /\ now = DateUTC(Today) + StartHour - tz
    /\ Idle
    /\ fnIn \in [booked : BookedTimes,
                 isTime : {settings.strategy = "weekdayAndTimeOrder"},
                 pref : {IF settings.strategy = "dateAndTimeOrder"
                         THEN settings.bookingPreference
                         ELSE settings.timePreference}]
    /\ fnOut = [done |-> FALSE, val |-> <<>>]
    /\ ClientIdle
    /\ LegacyIdle

ApplyGetMorePrioritized ==
    /\ ~fnOut.done
    /\ fnOut' = [done |-> TRUE,
                 val |-> IF fnIn.isTime
                         THEN getMorePrioritizedTime(fnIn.booked, fnIn.pref)
                         ELSE getMorePrioritizedDateAndTime(fnIn.booked, fnIn.pref)]
    /\ UNCHANGED <<Config, authResponses, now, pc, inflight, sent, exited, bookedGuid,
                   bookingInformation, newGuid, finalGuid, result, Pass,
                   mainPasses, upgradePasses, logs, Remote, fnIn, exitCode, Client, Legacy>>

NextGMP == ApplyGetMorePrioritized

SpecGMP == InitGMP /\ [][NextGMP]_vars

\* ------------------------------------------- sendRequest applied on its own

\* A header line is a sequence of tokens; "=" and ";" are tokens of their own.

\* String.prototype.split: the pieces of s between the separators.
RECURSIVE SplitFrom(_, _, _, _)
SplitFrom(s, sep, i, piece) ==
    IF i > Len(s) THEN <<piece>>
    ELSE IF s[i] = sep
         THEN <<piece>> \o SplitFrom(s, sep, i + 1, <<>>)
         ELSE SplitFrom(s, sep, i + 1, Append(piece, s[i]))

split(s, sep) == SplitFrom(s, sep, 1, <<>>)

\* cookies[key] = value: a new key comes last, a known key keeps its place.
PutCookie(jar, key, value) ==
    IF \E k \in 1..Len(jar) : jar[k].key = key
    THEN [k \in 1..Len(jar) |->
            IF jar[k].key = key THEN [key |-> key, value |-> value] ELSE jar[k]]
    ELSE Append(jar, [key |-> key, value |-> value])

\* setCookies: s.split(';')[0], then split('='), then cookies[a[0]] = a[1],
\* for every line of the set-cookie header (<<>> when the header is absent).
RECURSIVE setCookiesFrom(_, _, _)
setCookiesFrom(jar, lines, i) ==
    IF i > Len(lines) THEN jar
    ELSE LET a == split(split(lines[i], ";")[1], "=")
         IN  setCookiesFrom(PutCookie(jar, a[1],
                                      IF Len(a) >= 2 THEN a[2] ELSE <<"undefined">>),
                            lines, i + 1)

setCookies(jar, lines) == setCookiesFrom(jar, lines, 1)

\* getCookies: `${key}=${value}; ` for every key, in key order.
RECURSIVE getCookiesFrom(_, _)
getCookiesFrom(jar, i) ==
    IF i > Len(jar) THEN <<>>
    ELSE jar[i].key \o <<"=">> \o jar[i].value \o <<";">>
           \o getCookiesFrom(jar, i + 1)

getCookies(jar) == getCookiesFrom(jar, 1)

\* Set-Cookie lines of the site: the two cookies named in connection.js,
\* with attributes, set again, and with a value that ends in "=".
SidX == <<"ASP.NET_SessionId", "=", "x", ";", "path", "=", "/">>
SidY == <<"ASP.NET_SessionId", "=", "y">>
TokQ == <<".viciniteeFoms", "=", "q", ";", "HttpOnly">>
TokPadded == <<".viciniteeFoms", "=", "p", "=", ";", "HttpOnly">>

\* res.headers['set-cookie'] of a response.
SetCookieHeaders ==
    {<<>>, <<SidX>>, <<SidY>>, <<SidX, TokQ>>, <<TokPadded>>, <<SidX, SidY>>}

InitClient ==
    /\ settings \in Settings
    /\ settings.strategy = "dateAndTimeOrder" /\ settings.bookingPreference = <<A>>
    /\ tz = 0
    /\ now = DateUTC(Today) + StartHour - tz
    /\ Idle
    /\ fnIn = <<>> /\ fnOut = <<>>
    /\ ClientIdle
    /\ LegacyIdle

Engine == <<Config, authResponses, now, pc, inflight, sent, exited, exitCode,
            bookedGuid, bookingInformation, newGuid, finalGuid, result, Pass,
            mainPasses, upgradePasses, logs, Remote, Fn, Legacy>>

\* sendRequest: https.request with the cookie header, req.end().  The
\* request before it is over for the caller: its callback was called.
ClientSend ==
    /\ reqState \in {"idle", "errored"}
    /\ Len(wire) < MaxRequests
    /\ wire' = Append(wire, [cookie |-> getCookies(cookies),
                             seen |-> Len(received)])
    /\ reqState' = "sent"
    /\ called' = 0 /\ events' = {}
    /\ UNCHANGED <<Engine, cookies, received>>

\* The response callback of https.request: setCookies(res).
ClientResponse ==
    /\ reqState = "sent"
    /\ \E lines \in SetCookieHeaders :
         /\ cookies' = setCookies(cookies, lines)
         /\ received' = Append(received, lines)
    /\ reqState' = "headers"
    /\ UNCHANGED <<Engine, wire, called, events>>

\* res.on('end'): callback(null, body).  A response that was ended emits
\* nothing more; one that failed does not end.
ClientDelivered ==
    /\ reqState = "headers"
    /\ events' = events \cup {"end"}
    /\ called' = called + 1
    /\ reqState' = "idle"
    /\ UNCHANGED <<Engine, cookies, wire, received>>

\* res.on('error'): callback(err).  The connection broke while the body was
\* read; the request may emit its own 'error' for it as well.
ClientResponseError ==
    /\ reqState \in {"headers", "errored"}
    /\ "resError" \notin events
    /\ events' = events \cup {"resError"}
    /\ called' = called + 1
    /\ reqState' = "errored"
    /\ UNCHANGED <<Engine, cookies, wire, received>>

\* req.on('error'): callback(err): before a response was received, or when
\* the connection broke while the body was read.
ClientRequestError ==
    /\ reqState \in {"sent", "headers", "errored"}
    /\ "reqError" \notin events
    /\ events' = events \cup {"reqError"}
    /\ called' = called + 1
    /\ reqState' = IF reqState = "sent" THEN "idle" ELSE "errored"
    /\ UNCHANGED <<Engine, cookies, wire, received>>

NextClient ==
    \/ ClientSend
    \/ ClientResponse
    \/ ClientDelivered
    \/ ClientResponseError
    \/ ClientRequestError

SpecClient == InitClient /\ [][NextClient]_vars

\* ----------------------------- the Session Client operations on their own

\* Messages of the site (connection.js:196-199, 249-254, 293-294).
NoSpaceLeft ==
    "Sorry, There is no space left to complete the booking. Please refresh the page and try again"
InvalidParameters == "The parameters specified are not valid"

\* Envelopes with a Code other than 200, with the given Data.
Failures(data) ==
    {[err |-> FALSE, Code |-> c, Message |-> m, Data |-> data] :
       c \in {LoginFailResp.Code, FailResp.Code},
       m \in {LoginFailResp.Message, FailResp.Message, NoSpaceLeft,
              InvalidParameters}}

\* Availability as the site reports it (connection.js:208-211).
SiteAvailabilities == {-100, -1, 0, 1}

\* An operation, the response it is given and, for the availability query,
\* the date and time the engine then looks for.
ConnInputs ==
    [op : {"login"}, desired : {NoDate},
     resp : {ErrResp, OkResp(<<>>)} \cup Failures(<<>>)]
    \cup
    [op : {"list"},
     desired : {toISOString(DateUTC(Monday) + SessionHours[k]) :
                  k \in 1..Len(SessionHours)},
     resp : {ErrResp} \cup Failures(<<>>)
            \cup {OkResp(SessionData(toISOString(DateUTC(Monday)), avail)) :
                    avail \in [1..Len(SessionHours) -> SiteAvailabilities]}]
    \cup
    [op : {"book"}, desired : {NoDate},
     resp : {[ErrResp EXCEPT !.Data = [Guid |-> NoGuid]]}
            \cup Failures([Guid |-> NoGuid]) \cup Failures([Guid |-> 1])
            \cup {OkResp([Guid |-> g]) : g \in 1..2}]
    \cup
    [op : {"query"}, desired : {NoDate},
     resp : {[ErrResp EXCEPT !.Data = NoInfo]} \cup Failures(NoInfo)
            \cup {OkResp([Guid |-> g, StartDateTime |-> d]) :
                    g \in 1..2, d \in {localOrISOToISO(A), localOrISOToISO(B)}}]

NoOutput == [done |-> FALSE, val |-> <<>>, match |-> NoGuid]

InitConn ==
    /\ settings \in Settings
    /\ settings.strategy = "dateAndTimeOrder" /\ settings.bookingPreference = <<A>>
    /\ tz \in TimeZones
    /\ now = DateUTC(Today) + StartHour - tz
    /\ Idle
    /\ ClientIdle
    /\ LegacyIdle
    /\ fnIn \in ConnInputs
    /\ fnOut = NoOutput

\* What the operation hands its callback.
Applied(val, match) ==
    /\ ~fnOut.done
    /\ fnOut' = [done |-> TRUE, val |-> val, match |-> match]
    /\ UNCHANGED <<Config, authResponses, now, pc, inflight, sent, exited,
                   exitCode, bookedGuid, bookingInformation, newGuid, finalGuid,
                   result, Pass, mainPasses, upgradePasses, logs, Remote, fnIn,
                   Client, Legacy>>

ApplyLogin ==
    /\ fnIn.op = "login"
    /\ Applied(login(fnIn.resp), NoGuid)

\* listAvailableBookings, and tryToBookGivenAvailability on what it returned.
ApplyListAvailableBookings ==
    /\ fnIn.op = "list"
    /\ LET r == listAvailableBookings(fnIn.resp)
       IN  Applied(r, IF r.err THEN NoGuid
                      ELSE tryToBookGivenAvailability(fnIn.desired,
                                                      r.availables).guid)

ApplySendBookRequest ==
    /\ fnIn.op = "book"
    /\ Applied(sendBookRequest(fnIn.resp), NoGuid)

ApplyQueryBookInformation ==
    /\ fnIn.op = "query"
    /\ Applied(queryBookInformation(fnIn.resp), NoGuid)

NextConn ==
    \/ ApplyLogin
    \/ ApplyListAvailableBookings
    \/ ApplySendBookRequest
    \/ ApplyQueryBookInformation

SpecConn == InitConn /\ [][NextConn]_vars

\* ------------------------------------- responses that are not an envelope

\* A body that is not JSON (an HTML error page), and an envelope with Code
\* 200 that has no Data.
HtmlBody ==
    [err |-> FALSE, json |-> FALSE, Code |-> 0, Message |-> "", hasData |-> FALSE]

NoDataResp ==
    [err |-> FALSE, json |-> TRUE, Code |-> OK, Message |-> "Success",
     hasData |-> FALSE]

UnexpectedBodies == {HtmlBody, NoDataResp}

\* listAvailableBookings and sendBookRequest throw in the callback they gave
\* sendRequest: JSON.parse(body) throws a SyntaxError for a body that is not
\* JSON, and data.Data.forEach / data.Data.Guid a TypeError when Code is 200
\* and Data is missing.  Their own callback is then never called.
callbackThrows(resp) ==
    ~resp.err /\ (~resp.json \/ (resp.Code = OK /\ ~resp.hasData))

\* The exit code of a process ended by an uncaught exception.
UncaughtException == 1

\* An exception thrown in the 'end' listener of the response is caught by
\* nobody: the process prints it and ends.
Crash ==
    /\ pc' = "crashed"
    /\ exited' = TRUE
    /\ exitCode' = UncaughtException
    /\ NoSend
    /\ UNCHANGED <<Config, authResponses, now, bookedGuid, bookingInformation,
                   newGuid, finalGuid, result, Pass, mainPasses, upgradePasses,
                   logs, Remote, Fn, Client, Legacy>>

\* The response to ListAvailableSessions is not what listAvailableBookings
\* expects.
ListResponseThrows ==
    /\ pc = "list" /\ ~exited
    /\ \E resp \in UnexpectedBodies : callbackThrows(resp)
    /\ Crash

\* The response to AddBooking is not what sendBookRequest expects.
BookResponseThrows ==
    /\ pc = "book" /\ ~exited
    /\ \E resp \in UnexpectedBodies : callbackThrows(resp)
    /\ Crash

NextUnexpected ==
    \/ perform
    \/ InitialCookiesResponse
    \/ LoginResponse
    \/ RetryTimer
    \/ ListResponse
    \/ ListResponseThrows
    \/ BookResponse
    \/ BookResponseThrows
    \/ Query1Response
    \/ CancelResponse
    \/ Query2Response
    \/ Timeout
    \/ Tick

\* A run against a remote that may also answer an availability query or a
\* book request with a body that is not the expected envelope.
SpecUnexpected == Init /\ [][NextUnexpected]_vars

\* --------------------------------------- the date helpers applied on their own

Wednesday == Today + 3

\* Date-time strings: early, in the evening and late on two days, written
\* without zone and with Z.
UtilDates ==
    {[t |-> DateUTC(day) + h, z |-> z] :
        day \in {Monday, Wednesday}, h \in {0, 20, 23}, z \in BOOLEAN}

\* Times of day, without zone and with Z.
UtilTimes == {[h |-> h, z |-> z] : h \in {0, 20, 21}, z \in BOOLEAN}

\* Start times the site may report for Monday's sessions.
UtilStarts == {[t |-> DateUTC(Monday) + h, z |-> z] : h \in {19, 20}, z \in BOOLEAN}

\* Data of ListAvailableSessions: up to two sessions, the Guid of a session
\* being its place in the answer.
UtilSiteData ==
    {<<>>}
    \cup {<<[Guid |-> 1, StartDateTime |-> a, Availability |-> 0]>> :
            a \in UtilStarts}
    \cup {<<[Guid |-> 1, StartDateTime |-> a, Availability |-> 0],
            [Guid |-> 2, StartDateTime |-> b, Availability |-> 0]>> :
            a \in UtilStarts, b \in UtilStarts}

\* Desired date-times around Monday's sessions.
UtilDesired ==
    {[t |-> DateUTC(Monday) + h, z |-> z] : h \in 18..21, z \in BOOLEAN}

\* "Wednesday", "wednesday", "WEDNESDAY", "Monday", "sunday", and two
\* strings that are no weekday name: "Wed", "3".
WeekdayNames ==
    {<<"W", "e", "d", "n", "e", "s", "d", "a", "y">>,
     <<"w", "e", "d", "n", "e", "s", "d", "a", "y">>,
     <<"W", "E", "D", "N", "E", "S", "D", "A", "Y">>,
     <<"M", "o", "n", "d", "a", "y">>,
     <<"s", "u", "n", "d", "a", "y">>,
     <<"W", "e", "d">>,
     <<"3">>}

Weekdays ==
    {String(n) : n \in WeekdayNames} \cup {Number(i) : i \in 0..(DaysPerWeek - 1)}

Offsets == {0, 1, 2, 5, 8}

\* The moments at which the helper is called: early and late (local time)
\* on each day of a week.
Nows ==
    {DateUTC(Today + d) + h - tz : d \in 0..(DaysPerWeek - 1), h \in {0, StartHour}}

UtilDefaults ==
    [date |-> NoDate, time |-> T20, sessions |-> <<>>, weekday |-> Number(0),
     offset |-> 0]

UtilInputs ==
    {[UtilDefaults EXCEPT !.date = d, !.sessions = listAvailableBookings(OkResp(data)).availables]
        @@ [fn |-> "tryToBookGivenAvailability"] :
        d \in UtilDesired, data \in UtilSiteData}
    \cup {[UtilDefaults EXCEPT !.date = d] @@ [fn |-> "localOrISOToISO"] :
            d \in UtilDates}
    \cup {[UtilDefaults EXCEPT !.date = d, !.time = t]
            @@ [fn |-> "datePlusTimeToDateAndTime"] :
            d \in UtilDates, t \in UtilTimes}
    \cup {[UtilDefaults EXCEPT !.date = d] @@ [fn |-> "dateAndTimeOrDateToDate"] :
            d \in UtilDates}
    \cup {[UtilDefaults EXCEPT !.weekday = w, !.offset = o]
            @@ [fn |-> "getNextDateForWeekday"] :
            w \in Weekdays, o \in Offsets}

\* n: how often the helper was applied; val: what it returned last; first:
\* what it returned the first time.
NoneApplied == [n |-> 0, val |-> NoDate, first |-> NoDate]

InitUtils ==
    /\ settings \in Settings
    /\ settings.strategy = "weekdayAndTimeOrder" /\ settings.timePreference = <<T20>>
    /\ tz \in TimeZones
    /\ fnIn \in UtilInputs
    /\ now \in Nows
    /\ fnIn.fn # "getNextDateForWeekday" => now = DateUTC(Today) + StartHour - tz
    /\ Idle
    /\ ClientIdle
    /\ LegacyIdle
    /\ fnOut = NoneApplied

Returned(val) ==
    /\ fnOut' = [n |-> fnOut.n + 1, val |-> val,
                 first |-> IF fnOut.n = 0 THEN val ELSE fnOut.first]
    /\ UNCHANGED <<Config, authResponses, now, pc, inflight, sent, exited,
                   exitCode, bookedGuid, bookingInformation, newGuid, finalGuid,
                   result, Pass, mainPasses, upgradePasses, logs, Remote, fnIn,
                   Client, Legacy>>

ApplyTryToBookGivenAvailability ==
    /\ fnIn.fn = "tryToBookGivenAvailability" /\ fnOut.n = 0
    /\ Returned(tryToBookGivenAvailability(fnIn.date, fnIn.sessions))

\* localOrISOToISO, applied to the input and then to its own result.
ApplyLocalOrISOToISO ==
    /\ fnIn.fn = "localOrISOToISO" /\ fnOut.n < 2
    /\ Returned(localOrISOToISO(IF fnOut.n = 0 THEN fnIn.date ELSE fnOut.val))

ApplyDatePlusTimeToDateAndTime ==
    /\ fnIn.fn = "datePlusTimeToDateAndTime" /\ fnOut.n = 0
    /\ Returned(datePlusTimeToDateAndTime(fnIn.date, fnIn.time))

ApplyDateAndTimeOrDateToDate ==
    /\ fnIn.fn = "dateAndTimeOrDateToDate" /\ fnOut.n = 0
    /\ Returned(dateAndTimeOrDateToDate(fnIn.date))

ApplyGetNextDateForWeekday ==
    /\ fnIn.fn = "getNextDateForWeekday" /\ fnOut.n = 0
    /\ Returned(getNextDateForWeekday(fnIn.weekday, fnIn.offset))

NextUtils ==
    \/ ApplyTryToBookGivenAvailability
    \/ ApplyLocalOrISOToISO
    \/ ApplyDatePlusTimeToDateAndTime
    \/ ApplyDateAndTimeOrDateToDate
    \/ ApplyGetNextDateForWeekday

SpecUtils == InitUtils /\ [][NextUtils]_vars

\* ------------------------------------------------------------------ claims

Ops(op) == {k \in 1..Len(sent) : sent[k].op = op}

\* The entry the current request of a pass is about.
CurrentEntry == passList[passIdx]

\* C1: in a searching pass the entries are attempted in list order, none
\* left out, every request is about the entry being attempted, and once the
\* pass has booked no request for a later entry is waiting or was made.
C1_InOrderFirstSuccessEndsPass ==
    /\ \A k \in 1..Len(attempts) : attempts[k] = k
    /\ Len(attempts) <= Len(passList)
    /\ pc \in {"list", "book"} => passBooked = NoGuid
    /\ passBooked # NoGuid =>
         /\ passIdx = Len(passList) + 1
         /\ \E b \in remoteBookings : b.guid = passBooked
    /\ (pc = "book" \/ (pc = "list" /\ settings.strategy = "dateAndTimeOrder")) =>
         /\ passIdx = Len(attempts)
         /\ passIdx \in 1..Len(passList)
    /\ (pc = "list" /\ settings.strategy = "dateAndTimeOrder") =>
         inflight = Req("list", dateAndTimeOrDateToDate(CurrentEntry), NoGuid, "")
    /\ (pc = "book" /\ settings.strategy = "dateAndTimeOrder") =>
         toISOString(inflight.guid) = localOrISOToISO(CurrentEntry)
    /\ (pc = "book" /\ settings.strategy = "weekdayAndTimeOrder") =>
         toISOString(inflight.guid)
           = datePlusTimeToDateAndTime(passDate, CurrentEntry)

\* A pass over three entries booked the second one: the first and the second
\* were attempted, the third never.
C1_Witness ==
    /\ settings.strategy = "dateAndTimeOrder"
    /\ passKind = "main" /\ passList = <<A, B, D>>
    /\ passBooked # NoGuid /\ attempts = <<1, 2>>
    /\ Cardinality(Ops("list")) = 2 /\ Cardinality(Ops("book")) = 1

LoopStarted == "info: Starting infinite loop" \in logs

\* C2: the retry loop ends only by a pass that booked; after a pass that
\* failed the loop waits for its timer, and the timer starts the next pass
\* unless the deadline ends the process first; a failed pass is never the
\* run's terminal error.
C2_NeverGivesUp ==
    /\ [](pc \in {"query1", "cancel", "query2", "done"} => bookedGuid # NoGuid)
    /\ []((LoopStarted /\ bookedGuid = NoGuid) => pc \in {"sleep", "list", "book"})
    /\ [][(passKind' = "main" /\ pc \in {"list", "book"}
            /\ pc' \notin {"list", "book"})
          => IF passBooked' = NoGuid
             THEN pc' = "sleep" /\ result' = result /\ mainPasses' = mainPasses
             ELSE pc' = "query1" /\ bookedGuid' = passBooked']_vars
    /\ (pc = "sleep" /\ mainPasses < MaxPasses)
         ~> (pc # "sleep" \/ mainPasses = MaxPasses \/ exited)

\* Every explored pass of the retry loop has failed and the loop waits again.
C2_Witness ==
    /\ pc = "sleep" /\ mainPasses = MaxPasses /\ bookedGuid = NoGuid
    /\ Len(passList) > 0 /\ Cardinality(Ops("book")) > 0
    /\ result = NoResult /\ ~exited

\* The request whose error the waterfall's final callback received.
LastOp == sent[Len(sent)].op

\* C3: the run ends with an error only if the initial request or the login
\* failed; once a booking was created the run does not end with an error.
C3_FailedOnlyByAuth ==
    pc = "failed" =>
        /\ LastOp \in {"cookies", "login"}
        /\ nextGuid = 1

BookingGuids == {b.guid : b \in remoteBookings}

\* C4: when the upgrade pass has booked and the cancel of the original
\* booking fails (the booking stays at the remote), tryToRebookBetterOne
\* hands on the new guid, the manual-intervention warning is logged and the
\* final details query is sent for the new guid.
C4_CancelFailsReportsNew ==
    [][(pc = "cancel" /\ pc' # "cancel" /\ bookedGuid \in BookingGuids')
       => /\ newGuid # NoGuid /\ newGuid # bookedGuid
          /\ finalGuid' = newGuid
          /\ "warn: please cancel manually" \in logs'
          /\ pc' = "query2"
          /\ inflight' = Req("query", NoDate, newGuid, "")]_vars

\* The cancel failed: both bookings exist and the new one is queried.
C4_Witness ==
    /\ pc = "query2" /\ Cardinality(Ops("cancel")) = 1
    /\ BookingGuids = {bookedGuid, newGuid} /\ newGuid # bookedGuid
    /\ "warn: please cancel manually" \in logs
    /\ inflight.guid = newGuid

\* C5: a cancel request is sent at most once in a run, only after the
\* upgrade pass has booked, for the original booking with the configured
\* reason, never for the guid that is handed on as authoritative; the engine
\* then waits for its callback and goes on to the final query.
C5_CancelOriginalOnce ==
    /\ Cardinality(Ops("cancel")) <= 1
    /\ \A k \in Ops("cancel") :
         /\ sent[k] = Req("cancel", NoDate, bookedGuid, settings.reasonToCancel)
         /\ bookedGuid # NoGuid
         /\ newGuid \notin {NoGuid, bookedGuid}
         /\ \E j \in Ops("book") : j < k /\ \A i \in Ops("query") : i < j \/ i > k
         /\ finalGuid # sent[k].guid
         /\ pc \in {"cancel", "query2", "done", "failed"}
         /\ pc = "cancel" <=> finalGuid = NoGuid
    /\ (pc = "cancel") = (inflight.op = "cancel")
    /\ pc = "cancel" => Ops("cancel") # {}
    /\ (newGuid # NoGuid) = (Ops("cancel") # {})

\* The original booking was cancelled and the new one is authoritative.
C5_Witness ==
    /\ Cardinality(Ops("cancel")) = 1 /\ pc = "done"
    /\ BookingGuids = {newGuid} /\ finalGuid = newGuid
    /\ bookedGuid \notin {NoGuid, newGuid}

\* C6: when the upgrade pass ends without a booking, no cancel is sent, the
\* run does not end and the final details query is sent for the original
\* booking.
C6_UpgradeFailsKeepsOriginal ==
    [][(passKind' = "upgrade" /\ pc \in {"query1", "list", "book"}
          /\ pc' \notin {"list", "book"} /\ pc' # pc /\ passBooked' = NoGuid)
       => /\ pc' = "query2"
          /\ finalGuid' = bookedGuid /\ bookedGuid # NoGuid
          /\ inflight' = Req("query", NoDate, bookedGuid, "")
          /\ Ops("cancel") = {} /\ newGuid' = NoGuid
          /\ result' = result /\ remoteBookings' = remoteBookings]_vars

\* The upgrade pass attempted an entry, booked nothing, and the original
\* booking is queried.
C6_Witness ==
    /\ passKind = "upgrade" /\ pc = "query2" /\ Len(attempts) > 0
    /\ passBooked = NoGuid /\ inflight.guid = bookedGuid
    /\ BookingGuids = {bookedGuid}

\* C7: when no entry is more prioritized than the booked one, the upgrade
\* pass sends no availability query, no book request and no cancel request.
C7_EmptyUpgradeSendsNothing ==
    (passKind = "upgrade" /\ passList = <<>>) =>
        /\ pc \notin {"list", "book", "cancel"}
        /\ \A k \in 1..Len(sent) :
             sent[k].op \in {"list", "book", "cancel"} =>
                \E j \in Ops("query") : k < j

\* The instant a preference entry stands for: a date and time by itself, a
\* time of day on the local calendar day of the booked time.
EntryInstant(entry, booked, isTime) ==
    IF isTime
    THEN DateParse([t |-> DateUTC(LocalDay(DateParse(booked))) + entry.h,
                    z |-> entry.z])
    ELSE DateParse(entry)

\* The positions of the entries whose instant is the booked one.
EqualEntries(booked, pref, isTime) ==
    {k \in 1..Len(pref) : EntryInstant(pref[k], booked, isTime) = DateParse(booked)}

\* C8: getMorePrioritized yields the entries before the first entry whose
\* instant equals the booked time, in their order, and the whole list when
\* no entry equals it; for [A, B, D] and booked B it yields [A], for booked A
\* it yields [].
C8_MorePrioritizedIsPrefix ==
    fnOut.done =>
        LET hits  == EqualEntries(fnIn.booked, fnIn.pref, fnIn.isTime)
            first == CHOOSE k \in hits : \A m \in hits : k <= m
        IN  /\ fnOut.val = IF hits = {} THEN fnIn.pref
                           ELSE SubSeq(fnIn.pref, 1, first - 1)
            /\ (fnIn.pref = <<A, B, D>> /\ fnIn.booked = localOrISOToISO(B))
                 => fnOut.val = <<A>>
            /\ (fnIn.pref = <<A, B, D>> /\ fnIn.booked = localOrISOToISO(A))
                 => fnOut.val = <<>>

\* A list with two entries of the booked instant: the result stops before
\* the first of them.
C8_Witness ==
    /\ fnOut.done /\ fnIn.pref = <<A, B, A>>
    /\ fnIn.booked = localOrISOToISO(B) /\ fnOut.val = <<A>>

\* C9 (as claimed): the bookings made by the run and not cancelled are at
\* most one, in every state.
C9_AtMostOneBooking == Cardinality(remoteBookings) <= 1

\* C9 (amended): the bookings made by the run and not cancelled are at most
\* two; they are two only after the upgrade pass has booked and while the
\* cancel of the original booking has not succeeded, and then they are the
\* original and the new booking; once the cancel has succeeded only the new
\* booking is left.
C9_TwoOnlyUntilCancelled ==
    /\ Cardinality(remoteBookings) <= 2
    /\ Cardinality(BookingGuids) = Cardinality(remoteBookings)
    /\ newGuid = NoGuid =>
         BookingGuids = IF bookedGuid = NoGuid THEN {} ELSE {bookedGuid}
    /\ newGuid # NoGuid =>
         /\ BookingGuids \in {{bookedGuid, newGuid}, {newGuid}}
         /\ Cardinality({bookedGuid, newGuid}) = 2
         /\ pc = "cancel" => BookingGuids = {bookedGuid, newGuid}
    /\ "info: Better spot booked successfully" \in logs =>
         BookingGuids = {newGuid}

\* The upgrade pass has booked and the cancel is waiting: two bookings.
C9_Witness ==
    /\ pc = "cancel" /\ Cardinality(remoteBookings) = 2
    /\ BookingGuids = {bookedGuid, newGuid}

\* C10: once a pass of the retry loop has booked, the loop starts no further
\* pass; the upgrade is one pass, started once and never retried; at most two
\* book requests succeed and the booking is replaced at most once.
C10_OneUpgradeNoRetry ==
    /\ [](upgradePasses <= 1 /\ nextGuid - 1 <= 2
          /\ Cardinality(Ops("cancel")) <= 1)
    /\ [](upgradePasses = 1 <=> bookingInformation # NoInfo)
    /\ [](pc \in {"cancel", "query2", "done"} => upgradePasses = 1)
    /\ [](bookedGuid # NoGuid => pc # "sleep")
    /\ [][bookedGuid # NoGuid =>
            /\ mainPasses' = mainPasses
            /\ bookedGuid' = bookedGuid
            /\ upgradePasses = 1 => (upgradePasses' = 1 /\ passKind' = "upgrade")]_vars
    /\ [][newGuid # NoGuid => newGuid' = newGuid /\ nextGuid' = nextGuid]_vars
    /\ [][(passKind = "upgrade" /\ pc \in {"list", "book"}
             /\ pc' \notin {"list", "book"})
          => pc' \in {"cancel", "query2"}]_vars

\* A run in which a second pass of the retry loop booked, the upgrade pass
\* booked again and the run is done.
C10_Witness ==
    /\ pc = "done" /\ mainPasses = 2 /\ upgradePasses = 1 /\ nextGuid = 3
    /\ newGuid # NoGuid /\ Len(attempts) > 0

\* The guid tryToRebookBetterOne hands on: the new one if the upgrade pass
\* booked, the original one otherwise.
Authoritative == IF newGuid # NoGuid THEN newGuid ELSE bookedGuid

\* C11: the final details query is sent after the upgrade step for the
\* authoritative guid (the new one if the upgrade pass booked, the original
\* one otherwise), and the result of a run that is done is what this last
\* query returned: the details of that booking at the remote.
C11_DoneCarriesFinalDetails ==
    /\ pc \in {"query2", "done"} =>
         /\ upgradePasses = 1
         /\ bookingInformation.Guid = bookedGuid /\ bookedGuid # NoGuid
         /\ finalGuid = Authoritative
         /\ sent[Len(sent)] = Req("query", NoDate, Authoritative, "")
         /\ Cardinality(Ops("query")) = 2
         /\ \A k \in Ops("list") \cup Ops("book") \cup Ops("cancel") :
              k < Len(sent)
    /\ pc = "query2" => inflight = sent[Len(sent)] /\ result = NoResult
    /\ pc = "done" =>
         /\ ~result.err /\ result.error = NoError
         /\ result.data.Guid = Authoritative
         /\ \E b \in remoteBookings :
              result.data = [Guid |-> b.guid, StartDateTime |-> b.start]

\* The run is done after a failed cancel: both bookings exist and the
\* result is the details of the new one.
C11_Witness ==
    /\ pc = "done" /\ newGuid # NoGuid
    /\ BookingGuids = {bookedGuid, newGuid}
    /\ result.data.Guid = newGuid /\ result.data.Guid # bookingInformation.Guid

\* C12: the first request is the initial one, the second is login, and an
\* availability, book, query or cancel request is sent only after the remote
\* answered login with Code 200; when the initial request fails, or login is
\* answered with another Code, the run has failed at once, its error carries
\* the Message of that answer, and no further request was sent.
C12_AuthBeforeAnything ==
    /\ Len(sent) >= 1 => sent[1].op = "cookies"
    /\ Len(sent) >= 2 => sent[2].op = "login"
    /\ \A k \in 1..Len(sent) : k > 2 =>
         /\ sent[k].op \in {"list", "book", "query", "cancel"}
         /\ Len(authResponses) = 2
         /\ \A i \in 1..2 : ~authResponses[i].err
         /\ authResponses[2].Code = OK
    /\ Len(authResponses) <= Len(sent) /\ Len(authResponses) <= 2
    /\ pc = "cookies" <=> (Len(sent) = 1 /\ authResponses = <<>>)
    /\ pc = "login" <=> (Len(sent) = 2 /\ Len(authResponses) = 1)
    /\ (Len(authResponses) >= 1 /\ authResponses[1].err) =>
         /\ pc = "failed" /\ Len(sent) = 1
         /\ result.err /\ result.error # NoError /\ result.data = NoInfo
    /\ (Len(authResponses) = 2
          /\ (authResponses[2].err \/ authResponses[2].Code # OK)) =>
         /\ pc = "failed" /\ Len(sent) = 2 /\ ~LoopStarted
         /\ result.err /\ result.error # NoError /\ result.data = NoInfo
         /\ ~authResponses[2].err =>
              /\ result.error.Message = authResponses[2].Message
              /\ result.error.Code = authResponses[2].Code
              /\ result.error.Message # ""

\* The remote refused the login: the run has failed with the remote's
\* message after two requests.
C12_Witness ==
    /\ pc = "failed" /\ Len(sent) = 2 /\ LastOp = "login"
    /\ authResponses[2] = Envelope(LoginFailResp)
    /\ result.error.Message = LoginFailResp.Message

\* The cookie pairs of a Set-Cookie line or of a Cookie header as the
\* remote reads them: the name before the first "=", the value after it, up
\* to the ";".
CookiePairs(line) ==
    LET pieces == split(line, ";")
    IN  {[name |-> pieces[k][1],
          value |-> SubSeq(pieces[k], 3, Len(pieces[k]))] :
            k \in {j \in 1..Len(pieces) : Len(pieces[j]) >= 2}}

\* The pair a Set-Cookie line sets.
SetPair(line) ==
    LET piece == split(line, ";")[1]
    IN  [name |-> piece[1], value |-> SubSeq(piece, 3, Len(piece))]

\* The lines of the first n responses, in the order they were received.
RECURSIVE LinesUpTo(_)
LinesUpTo(n) == IF n = 0 THEN <<>> ELSE LinesUpTo(n - 1) \o received[n]

\* The pairs in force after the first n responses: for each name the one
\* set last.
InForce(n) ==
    LET lines == LinesUpTo(n)
    IN  {SetPair(lines[k]) : k \in {j \in 1..Len(lines) :
            \A m \in (j + 1)..Len(lines) :
               SetPair(lines[m]).name # SetPair(lines[j]).name}}

\* C13: every request carries, for every cookie name set by a response
\* received before it, the value set last; a response's cookies are in the
\* cookies object before its result is delivered, and a name once set stays.
C13_RequestsCarryLatestCookies ==
    /\ \A k \in 1..Len(wire) :
         InForce(wire[k].seen) \subseteq CookiePairs(wire[k].cookie)
    /\ reqState \in {"headers", "idle"} =>
         InForce(Len(received)) \subseteq CookiePairs(getCookies(cookies))

\* The steps of the waterfall that wait for a response.
Waiting == {"cookies", "login", "list", "book", "query1", "cancel", "query2"}

\* A pass has run to its end: every entry was gone through, or (same-date
\* pass) its availability query failed.
PassCompleted ==
    \/ passIdx = Len(passList) + 1
    \/ settings.strategy = "weekdayAndTimeOrder" /\ passIdx = 0
          /\ passKind # "none"

\* C14: a request is in flight exactly while a step waits for its response,
\* it is the last one sent (all earlier ones were answered), a step sends at
\* most one request and only when none is in flight or as the handler of the
\* response to the one in flight, and a pass starts only from the retry
\* timer or the first details query, after the pass before it has completed.
C14_StrictlySequential ==
    /\ []((inflight # NoReq) <=> (pc \in Waiting))
    /\ [](inflight # NoReq => inflight = sent[Len(sent)])
    /\ [][/\ Len(sent') <= Len(sent) + 1
          /\ SubSeq(sent', 1, Len(sent)) = sent
          /\ sent' # sent =>
               /\ inflight' = sent'[Len(sent')]
               /\ inflight = NoReq \/ pc \in Waiting]_vars
    /\ [][mainPasses' # mainPasses =>
            /\ pc = "sleep" /\ inflight = NoReq
            /\ mainPasses > 0 => (PassCompleted /\ passBooked = NoGuid)]_vars
    /\ [][upgradePasses' # upgradePasses =>
            /\ pc = "query1" /\ passKind = "main"
            /\ PassCompleted /\ passBooked # NoGuid]_vars

\* The second pass of the retry loop waits for an availability answer; the
\* requests of the first pass were all answered.
C14_Witness ==
    /\ pc = "list" /\ mainPasses = 2 /\ passKind = "main"
    /\ Cardinality(Ops("book")) >= 1
    /\ inflight = sent[Len(sent)] /\ inflight.op = "list"

TimedOutLine == "error: Timed out before being able to make a booking"

\* C15: the deadline can fire while a response is awaited and while the loop
\* sleeps; when it fires the process exits in the same step, the timed-out
\* line is logged, no request is sent, no result and no error is reported,
\* and no step is ever taken afterwards.
C15_DeadlineEndsRunAtOnce ==
    /\ []((pc \in Waiting \cup {"sleep"} /\ ~exited) => ENABLED Timeout)
    /\ [][~exited]_vars
    /\ [][(TimedOutLine \in logs' /\ TimedOutLine \notin logs) => exited']_vars
    /\ [][(exited' /\ ~exited) =>
            /\ TimedOutLine \in logs'
            /\ sent' = sent /\ pc' = pc /\ result' = result
            /\ remoteBookings' = remoteBookings
            /\ pc \in Waiting \cup {"sleep"} =>
                 (result' = NoResult /\ "error" \notin logs')]_vars
    /\ []((exited /\ pc \in Waiting \cup {"sleep"}) =>
            (TimedOutLine \in logs /\ "error" \notin logs /\ result = NoResult))

\* The deadline fired while a book request was waiting for its answer.
C15_Witness ==
    /\ exited /\ pc = "book" /\ inflight.op = "book"
    /\ TimedOutLine \in logs /\ "error" \notin logs

\* C16: the timed-out line is logged only for a run that has not reached
\* Done or Failed.
C16_TimedOutOnlyBeforeEnd ==
    TimedOutLine \in logs => pc \notin {"done", "failed"}

\* C17: a run that exits after its authentication failed exits with an error
\* code; a run that exits after it booked, or by the deadline before it
\* ended, exits with code 0.
C17_ExitCodeTellsFailure ==
    exited =>
        IF pc = "failed" /\ LastOp \in {"cookies", "login"}
        THEN exitCode # 0
        ELSE exitCode = 0

\* The positions of the sessions of the response with Availability >= 0.
Bookable == {k \in 1..Len(fnIn.resp.Data) : fnIn.resp.Data[k].Availability >= 0}

\* C18: for a successful response listAvailableBookings returns the sessions
\* with Availability >= 0 and no other, in the order of the response, each
\* with its Guid and StartDateTime; the session the engine then picks to book
\* is one of them.
C18_OnlyNonNegativeAvailability ==
    (fnOut.done /\ fnIn.op = "list" /\ ~fnIn.resp.err /\ fnIn.resp.Code = OK) =>
        LET out == fnOut.val.availables
            Nth(j) == CHOOSE k \in Bookable :
                         Cardinality({m \in Bookable : m <= k}) = j
        IN  /\ ~fnOut.val.err /\ fnOut.val.hasData
            /\ Len(out) = Cardinality(Bookable)
            /\ \A j \in 1..Len(out) :
                 out[j] = [guid |-> fnIn.resp.Data[Nth(j)].Guid,
                           startTime |-> fnIn.resp.Data[Nth(j)].StartDateTime]
            /\ fnOut.match # NoGuid =>
                 \E k \in Bookable : fnIn.resp.Data[k].Guid = fnOut.match
            /\ \A k \in 1..Len(fnIn.resp.Data) :
                 fnIn.resp.Data[k].Availability < 0 =>
                    fnIn.resp.Data[k].Guid # fnOut.match

\* A full session between two bookable ones is left out, and the desired
\* session, which is full, is not matched.
C18_Witness ==
    /\ fnOut.done /\ fnIn.op = "list" /\ fnIn.resp.Code = OK
    /\ Bookable = {1, 3} /\ Len(fnOut.val.availables) = 2
    /\ fnIn.resp.Data[1].Availability = 0
    /\ fnIn.desired = fnIn.resp.Data[2].StartDateTime /\ fnOut.match = NoGuid

\* C19: login, list available, book and query booking succeed for an
\* envelope with Code 200 and hand over its data; for any other Code they
\* hand their callback an error with the Code and Message of the envelope
\* and no second argument; no callback is given an error and a result.
C19_CodeDecidesOutcome ==
    fnOut.done =>
        LET resp == fnIn.resp
            r    == fnOut.val
        IN  /\ r.err <=> r.error # NoError
            /\ ~(r.err /\ r.hasData)
            /\ ~resp.err =>
                 /\ r.err <=> resp.Code # OK
                 /\ resp.Code # OK =>
                      /\ r.error.Message = resp.Message
                      /\ r.error.Code = resp.Code
                      /\ r.error.prefix # ""
                 /\ (resp.Code = OK /\ fnIn.op = "book") =>
                      (r.hasData /\ r.guid = resp.Data.Guid)
                 /\ (resp.Code = OK /\ fnIn.op = "query") =>
                      (r.hasData /\ r.data = resp.Data)
                 /\ (resp.Code = OK /\ fnIn.op = "list") => r.hasData
            /\ (r.err /\ fnIn.op = "book") => r.guid = NoGuid
            /\ (r.err /\ fnIn.op = "list") => r.availables = <<>>
            /\ resp.err => r.error = TransportError

\* The book operation was refused with a guid in the envelope: its callback
\* got the error with the remote's message and no guid.
C19_Witness ==
    /\ fnOut.done /\ fnIn.op = "book"
    /\ fnIn.resp.Code = FailResp.Code /\ fnIn.resp.Data.Guid # NoGuid
    /\ fnOut.val.error.Message = NoSpaceLeft /\ ~fnOut.val.hasData

\* C20: the book operation fails with a BookingConflictError when the remote
\* reports that no space is left, and with a BookingError for any other
\* envelope with a Code other than 200.
C20_ConflictIsItsOwnError ==
    (fnOut.done /\ fnIn.op = "book" /\ ~fnIn.resp.err /\ fnIn.resp.Code # OK) =>
        fnOut.val.error.name = IF fnIn.resp.Message = NoSpaceLeft
                               THEN "BookingConflictError"
                               ELSE "BookingError"

\* The sessions of the list given to tryToBookGivenAvailability that start
\* at the desired instant.
StartingAtDesired ==
    {k \in 1..Len(fnIn.sessions) :
        DateParse(fnIn.sessions[k].startTime) = DateParse(fnIn.date)}

\* C21: tryToBookGivenAvailability selects a session exactly when a session
\* of the list starts at the desired instant, however the two are written
\* (with or without zone); the selected session starts at that instant; for
\* an empty list none is selected; and a desired date-time that is the start
\* time of a session returned by listAvailableBookings finds that session
\* (the last of them, should several start at that instant).
C21_MatchByInstant ==
    (fnIn.fn = "tryToBookGivenAvailability" /\ fnOut.n = 1) =>
        LET sessions == fnIn.sessions
            guid     == fnOut.val.guid
        IN  /\ (guid # NoGuid) <=> (StartingAtDesired # {})
            /\ guid # NoGuid =>
                 \E k \in StartingAtDesired : sessions[k].guid = guid
            /\ sessions = <<>> => guid = NoGuid
            /\ \A k \in 1..Len(sessions) :
                 sessions[k].startTime = fnIn.date =>
                   /\ guid # NoGuid
                   /\ (\A m \in StartingAtDesired : m <= k) =>
                        guid = sessions[k].guid

\* A desired time written without zone, in a zone other than UTC, selects the
\* second session, whose start is written with Z; the first starts an hour
\* earlier.
C21_Witness ==
    /\ fnIn.fn = "tryToBookGivenAvailability" /\ fnOut.n = 1
    /\ tz = 1 /\ ~fnIn.date.z
    /\ Len(fnIn.sessions) = 2
    /\ fnIn.sessions[2].startTime.z
    /\ fnIn.sessions[2].startTime.t # fnIn.date.t
    /\ StartingAtDesired = {2}
    /\ fnOut.val.guid = fnIn.sessions[2].guid

\* C22: localOrISOToISO is idempotent in every time zone: applied to its own
\* result it returns that result again; and its result is the ISO form (with
\* Z) of the instant its argument denotes, so arguments denoting the same
\* instant give the same result.
C22_IsoIdempotent ==
    (fnIn.fn = "localOrISOToISO" /\ fnOut.n >= 1) =>
        /\ fnOut.first = [t |-> DateParse(fnIn.date), z |-> TRUE]
        /\ fnOut.n = 2 => fnOut.val = fnOut.first

\* A local time in UTC+1 was converted (to another text) and the result
\* converted again.
C22_Witness ==
    /\ fnIn.fn = "localOrISOToISO" /\ fnOut.n = 2
    /\ tz = 1 /\ ~fnIn.date.z
    /\ fnOut.first # fnIn.date
    /\ fnOut.val = fnOut.first

\* 2017-10-25T<h>:00 (a Wednesday), with Z or without zone.
Oct25(h, z) == [t |-> DateUTC(Wednesday) + h, z |-> z]
Oct26(h, z) == [t |-> DateUTC(Wednesday + 1) + h, z |-> z]

\* The calendar day on which the clocks of the system zone show an instant.
LocalCalendarDay(i) == CHOOSE d \in 0..(i \div HoursPerDay + 1) :
                          DateUTC(d) - tz <= i /\ i < DateUTC(d + 1) - tz

\* C23: datePlusTimeToDateAndTime returns the instant that has, on the local
\* calendar date of its date argument, the given time of day: read as local
\* time unless the time carries Z.  In UTC+1:
\*   ("2017-10-25T23:00",  "21:00")  -> 2017-10-25T20:00Z
\*   ("2017-10-25T23:00Z", "21:00")  -> 2017-10-26T20:00Z
\*   ("2017-10-25T23:00",  "21:00Z") -> 2017-10-25T21:00Z
\*   ("2017-10-25T23:00Z", "21:00Z") -> 2017-10-26T21:00Z
C23_DatePlusTime ==
    (fnIn.fn = "datePlusTimeToDateAndTime" /\ fnOut.n = 1) =>
        LET day == LocalCalendarDay(DateParse(fnIn.date))
        IN  /\ fnOut.val.z
            /\ fnOut.val.t = IF fnIn.time.z
                             THEN DateUTC(day) + fnIn.time.h
                             ELSE DateUTC(day) + fnIn.time.h - tz
            /\ (tz = 1 /\ fnIn.time.h = 21) =>
                 /\ (fnIn.date = Oct25(23, FALSE) /\ ~fnIn.time.z)
                       => fnOut.val = Oct25(20, TRUE)
                 /\ (fnIn.date = Oct25(23, TRUE) /\ ~fnIn.time.z)
                       => fnOut.val = Oct26(20, TRUE)
                 /\ (fnIn.date = Oct25(23, FALSE) /\ fnIn.time.z)
                       => fnOut.val = Oct25(21, TRUE)
                 /\ (fnIn.date = Oct25(23, TRUE) /\ fnIn.time.z)
                       => fnOut.val = Oct26(21, TRUE)

\* The second example: in UTC+1, 23:00Z is already the 26th.
C23_Witness ==
    /\ fnIn.fn = "datePlusTimeToDateAndTime" /\ fnOut.n = 1
    /\ tz = 1
    /\ fnIn.date = Oct25(23, TRUE) /\ fnIn.time = [h |-> 21, z |-> FALSE]
    /\ fnOut.val = Oct26(20, TRUE)

\* C24: for every desired instant and every system zone,
\* dateAndTimeOrDateToDate yields the local calendar date of the instant,
\* expressed as 00:00 UTC of that date.
C24_LocalCalendarDate ==
    (fnIn.fn = "dateAndTimeOrDateToDate" /\ fnOut.n = 1) =>
        fnOut.val = toISOString(DateUTC(LocalCalendarDay(DateParse(fnIn.date))))

\* The weekday (0 = Sunday) a weekday argument stands for; undefined for a
\* string that is no weekday name.
WeekdayMeant(w) ==
    IF w.type = "number" THEN w.value
    ELSE CASE w.value \in {<<"W", "e", "d", "n", "e", "s", "d", "a", "y">>,
                           <<"w", "e", "d", "n", "e", "s", "d", "a", "y">>,
                           <<"W", "E", "D", "N", "E", "S", "D", "A", "Y">>} -> 3
           [] w.value = <<"M", "o", "n", "d", "a", "y">> -> 1
           [] w.value = <<"s", "u", "n", "d", "a", "y">> -> 0
           [] OTHER -> undefined

C26_DateResolvedOncePerRun ==
    settings.strategy = "weekdayAndTimeOrder" =>
        \A i \in Ops("list"), j \in Ops("list") : sent[i].date = sent[j].date

\* C27: every book request of a searching pass directly follows the
\* availability query made for the same preference: the request sent before
\* it is a query for the date of the session it books, so no availability
\* obtained for another preference is used.
C27_OwnAvailabilityQuery ==
    \A k \in Ops("book") :
        /\ k > 1
        /\ sent[k - 1].op = "list"
        /\ sent[k - 1].date = sent[k].date

\* C28: no error in the attempt of a single preference ends the run: whatever
\* answers the availability query or the book request of an attempt, the
\* process is not ended by it, and the pass goes on.
C28_AttemptErrorsSwallowed ==
    /\ pc # "crashed"
    /\ ~(exited /\ exitCode = UncaughtException)

\* The last pass that started has called back.
PassEnded == passKind # "none" /\ pc \notin {"list", "book"}

\* The instant entry i of the pass's list stands for.
EntryStart(i) ==
    IF settings.strategy = "dateAndTimeOrder"
    THEN localOrISOToISO(passList[i])
    ELSE datePlusTimeToDateAndTime(passDate, passList[i])

\* The pass called back with the guid of the booking made for the last entry
\* it attempted; the entries before it were attempted and failed.
PassSucceeded ==
    /\ passBooked # NoGuid /\ passError = NoError
    /\ attempts # <<>>
    /\ \E b \in remoteBookings :
         b.guid = passBooked /\ b.start = EntryStart(attempts[Len(attempts)])

\* The pass went through its whole list (possibly empty) and booked nothing.
PassFailedEveryEntry ==
    /\ passBooked = NoGuid /\ passError = NoneSuccessful
    /\ Len(attempts) = Len(passList)

\* The availability query of a same-date pass failed: no entry was attempted
\* and the pass called back with the error of the query.
PassFailedByQuery ==
    /\ settings.strategy = "weekdayAndTimeOrder"
    /\ passBooked = NoGuid /\ attempts = <<>>
    /\ passError \in {TransportError,
                      EnvelopeError("List available bookings failed: ", FailResp)}

PreferenceList(s) ==
    IF s.strategy = "dateAndTimeOrder" THEN s.bookingPreference
    ELSE s.timePreference

\* C30: the configured preference list is never modified during a run: no
\* step changes the settings, every pass of the retry loop goes over the
\* list as configured, and the list of the upgrade pass is a list of its own
\* (a prefix of the configured one), the configured list staying as it was.
C30_PreferenceListImmutable ==
    /\ [][settings' = settings]_vars
    /\ [](passKind = "main" => passList = PreferenceList(settings))
    /\ [](passKind = "upgrade" =>
            \E n \in 0..Len(PreferenceList(settings)) :
                passList = SubSeq(PreferenceList(settings), 1, n))
    /\ [][passKind' = "upgrade" /\ passKind = "main" =>
            /\ passList = PreferenceList(settings)
            /\ PreferenceList(settings') = passList]_vars

\* After a retry, the second entry of [A, B, D] was booked and the upgrade
\* pass goes over [A]; the configured list is still [A, B, D].
C30_Witness ==
    /\ passKind = "upgrade" /\ mainPasses = 2
    /\ passList = <<A>>
    /\ settings.bookingPreference = <<A, B, D>>

\* The upgrade pass has booked: its booking is newGuid, the original booking
\* is the one bookingInformation describes.
UpgradeBooked == passKind = "upgrade" /\ newGuid # NoGuid

\* C31: when the upgrade pass has booked, the entry it booked stands in the
\* configured list strictly before the first entry equal to the original
\* booking's start time, the new booking is for that entry's instant, and it
\* is neither the booking already held nor for the instant already held.
C31_UpgradeStrictlyBetter ==
    UpgradeBooked =>
        LET list == PreferenceList(settings)
            orig == bookingInformation.StartDateTime
            hits == EqualEntries(orig, list,
                                 settings.strategy = "weekdayAndTimeOrder")
            pos  == attempts[Len(attempts)]
        IN  /\ hits # {}
            /\ attempts # <<>>
            /\ \A m \in hits : pos < m
            /\ passList[pos] = list[pos]
            /\ newGuid # bookingInformation.Guid
            /\ \E b \in remoteBookings :
                 /\ b.guid = newGuid
                 /\ b.start = EntryStart(pos)
                 /\ DateParse(b.start) # DateParse(orig)

\* D, the third of [A, B, D], was booked first; the upgrade pass failed to
\* book A and booked B.
C31_Witness ==
    /\ UpgradeBooked
    /\ settings.bookingPreference = <<A, B, D>>
    /\ DateParse(bookingInformation.StartDateTime) = DateParse(D)
    /\ attempts = <<1, 2>>
    /\ \E b \in remoteBookings : b.guid = newGuid /\ DateParse(b.start) = DateParse(B)

\* C32: every searching pass of the retry loop starts from the expiry of a
\* retry timer, the first one too: before the first expiry no availability
\* query (and no book request) is sent, a pass of the loop starts only in
\* the step in which the timer fires, one pass per expiry, and a pass that
\* failed arms the timer again and sends nothing until it fires.
C32_TimerBeforeEveryPass ==
    /\ [](mainPasses = 0 => Ops("list") = {} /\ Ops("book") = {})
    /\ [](pc = "sleep" => inflight = NoReq /\ LoopStarted)
    /\ [][mainPasses' # mainPasses =>
            pc = "sleep" /\ mainPasses' = mainPasses + 1]_vars
    /\ [][(pc = "sleep" /\ pc' # "sleep") => mainPasses' = mainPasses + 1]_vars
    /\ [][(sent' # sent /\ passKind' = "main" /\ pc \notin {"list", "book"})
            => pc = "sleep" /\ mainPasses' = mainPasses + 1]_vars
    /\ [][(passKind' = "main" /\ pc \in {"list", "book"}
             /\ pc' \notin {"list", "book"} /\ ~exited' /\ passBooked' = NoGuid)
            => pc' = "sleep" /\ sent' = sent /\ mainPasses' = mainPasses]_vars

\* The first pass went over both entries and failed; the timer is armed
\* again and nothing has been sent since.
C32_Witness ==
    /\ pc = "sleep" /\ mainPasses = 1 /\ ~exited
    /\ passKind = "main" /\ passBooked = NoGuid /\ attempts = <<1, 2>>
    /\ sent[Len(sent)].op \in {"list", "book"}

\* The availability query whose answer a book request was matched against:
\* the last one sent before it.
QueryBefore(k) ==
    CHOOSE j \in Ops("list") : j < k /\ \A i \in Ops("list") : i < k => i <= j

C34_CallbackExactlyOnce ==
    /\ called <= 1
    /\ (reqState \in {"idle", "errored"} /\ wire # <<>>) => called = 1

\* C35: in weekdayAndTimeOrder every instant attempted in a pass for a time
\* of day without zone lies, on the clocks of the system zone, on the
\* calendar date getNextDateForWeekday resolved: combining the date with the
\* time shifts the attempt neither to the day before nor to the day after,
\* whatever the offset of the zone.
C35_AttemptOnResolvedDate ==
    (settings.strategy = "weekdayAndTimeOrder" /\ passKind # "none") =>
        \A k \in 1..Len(attempts) :
            ~passList[attempts[k]].z =>
                LocalCalendarDay(EntryStart(attempts[k]).t) = UTCDay(passDate.t)

\* C36: when the process has ended, whenever the deadline fired, the run has
\* left at most one booking that is not cancelled, unless a cancel request
\* was sent and failed: the deadline between the upgrade's book response and
\* the cancel response does not leave two bookings.
C36_OneBookingLeftAtExit ==
    exited =>
        \/ Cardinality(remoteBookings) <= 1
        \/ /\ Ops("cancel") # {}
           /\ "warn: please cancel manually" \in logs

\* ------------------------------------------ footbooker.js: the first engine

\* localToUTC: getTime() + getTimezoneOffset() * 60000 of the parsed string,
\* in ISO form.  getTimezoneOffset is UTC minus local time.
localToUTC(localDateAndTime) ==
    toISOString(DateParse(localDateAndTime) + (0 - tz))

\* dateAndTimeToDate: the local midnight of the local calendar day of the
\* instant (new Date(date.toDateString())), minus getTimezoneOffset.
dateAndTimeToDate(localDateAndTime) ==
    LET date     == DateParse(localDateAndTime)
        midnight == DateParse([t |-> DateUTC(LocalDay(date)), z |-> FALSE])
    IN  toISOString(midnight - (0 - tz))

\* getMorePrioritized of footbooker.js: the entries before the first one
\* whose localToUTC is the booked instant.
RECURSIVE legacyGetMorePrioritized(_, _)
legacyGetMorePrioritized(bookedUTCDateAndTime, bookingPreference) ==
    IF bookingPreference = <<>> THEN <<>>
    ELSE IF toISOString(DateParse(localToUTC(Head(bookingPreference))))
              = toISOString(DateParse(bookedUTCDateAndTime))
         THEN <<>>
         ELSE <<Head(bookingPreference)>>
              \o legacyGetMorePrioritized(bookedUTCDateAndTime,
                                          Tail(bookingPreference))

\* tryToBook, in the callback of listAvailableBookings: the guid of the last
\* session that starts at localToUTC of the entry, NoGuid when there is none.
legacyMatch(localDateAndTime, sessions) ==
    LET dateAndTimeUTC == localToUTC(localDateAndTime)
        hits == {k \in 1..Len(sessions) :
                   toISOString(DateParse(sessions[k].startTime))
                     = toISOString(DateParse(dateAndTimeUTC))}
        last == CHOOSE k \in hits : \A m \in hits : m <= k
    IN  IF hits = {} THEN NoGuid ELSE sessions[last].guid

\* The timer of the script, setTimeout(..., timeout), and the timer of the
\* retry loop, setTimeout(..., retryTimeout).
TimeoutTimer == "timeout"
RetryTimeoutTimer == "retry"

\* let timer = setTimeout(...); perform(); clearTimeout(timer): the timers
\* armed when the script has run.
startTimers(armed) == (armed \cup {TimeoutTimer}) \ {TimeoutTimer}

\* The engine variables footbooker.js has no part in.
NotLegacy == <<Config, authResponses, now, pc, exited, exitCode, bookedGuid,
               bookingInformation, newGuid, finalGuid, result, Pass,
               mainPasses, upgradePasses, Fn, Client>>

\* The final callback of the waterfall of perform(): one log line.
LegacyFinish(error, lg) ==
    /\ legacyPc' = IF error # NoError THEN "failed" ELSE "done"
    /\ logs' = lg \cup {IF error # NoError THEN "error" ELSE "info: Result"}
    /\ NoSend
    /\ UNCHANGED timers

\* The callbacks a pass of tryToBookInOrder ends with; armed are the timers
\* armed when it ends.
\*   retry loop: keepTryingToBook's callback, then the test of whilst;
\*   rebook:     the callback in keepTryingToBookAndRebook.
LegacyEndPass(kind, booked, lg, armed) ==
    /\ legacyPassGuid' = booked
    /\ IF kind = "main"
       THEN /\ legacyGuid' = booked
            /\ IF booked = NoGuid
               THEN /\ logs' = lg \cup {WarnLine(NoneSuccessful)}
                    /\ timers' = armed \cup {RetryTimeoutTimer}
                    /\ legacyPc' = "sleep"
                    /\ NoSend
               ELSE /\ logs' = lg
                    /\ timers' = armed
                    /\ legacyPc' = "query1"
                    /\ Send(Req("query", NoDate, booked, ""))
       ELSE /\ UNCHANGED legacyGuid
            /\ timers' = armed
            /\ IF booked = NoGuid
               THEN /\ logs' = lg \cup {WarnLine(NoneSuccessful)}
                    /\ legacyPc' = "query2"
                    /\ Send(Req("query", NoDate, legacyGuid, ""))
               ELSE /\ logs' = lg
                    /\ legacyPc' = "cancel"
                    /\ Send(Req("cancel", NoDate, legacyGuid,
                                settings.reasonToCancel))

\* tryToBookInOrder of footbooker.js: the eachSeries from entry i on.  An
\* entry that is not skipped is attempted by tryToBook: its availability
\* query is sent; after the last entry the pass ends.
LegacyIterate(kind, list, i, booked, lg, armed) ==
    IF i <= Len(list) /\ booked = NoGuid
    THEN /\ legacyIdx' = i
         /\ legacyPassGuid' = booked
         /\ legacyPc' = "list"
         /\ Send(Req("list", dateAndTimeToDate(list[i]), NoGuid, ""))
         /\ logs' = lg \cup {"info: Trying to book"}
         /\ timers' = armed
         /\ UNCHANGED legacyGuid
    ELSE /\ legacyIdx' = Len(list) + 1
         /\ LegacyEndPass(kind, booked, lg, armed)

\* The script: the timer is set, perform() starts the waterfall with
\* getInitialCookies, the timer is cleared.
LegacyStart ==
    /\ legacyPc = "init"
    /\ timers' = startTimers(timers)
    /\ legacyPc' = "cookies"
    /\ Send(Req("cookies", NoDate, NoGuid, ""))
    /\ UNCHANGED <<NotLegacy, logs, Remote, legacyGuid, legacyKind,
                   legacyList, legacyIdx, legacyPassGuid, legacyPasses>>

\* Response of the initial request: login is sent, or the run fails.
LegacyCookiesResponse ==
    /\ legacyPc = "cookies"
    /\ \E resp \in {ErrResp, OkResp(<<>>)} :
         IF getInitialCookies(resp).err
         THEN LegacyFinish(getInitialCookies(resp).error, logs)
         ELSE /\ legacyPc' = "login"
              /\ Send(Req("login", NoDate, NoGuid, ""))
              /\ UNCHANGED <<logs, timers>>
    /\ UNCHANGED <<NotLegacy, Remote, legacyGuid, legacyKind, legacyList,
                   legacyIdx, legacyPassGuid, legacyPasses>>

\* Response of login: keepTryingToBookAndRebook calls keepTryingToBook, whose
\* first iteration arms the retry timer; or the run fails.
LegacyLoginResponse ==
    /\ legacyPc = "login"
    /\ \E resp \in {ErrResp, FailResp, LoginFailResp, OkResp(<<>>)} :
         IF login(resp).err
         THEN LegacyFinish(login(resp).error, logs)
         ELSE /\ timers' = timers \cup {RetryTimeoutTimer}
              /\ legacyPc' = "sleep"
              /\ NoSend
              /\ UNCHANGED logs
    /\ UNCHANGED <<NotLegacy, Remote, legacyGuid, legacyKind, legacyList,
                   legacyIdx, legacyPassGuid, legacyPasses>>

\* A timer that is armed fires.  The timer of the script logs 'Timed out';
\* the timer of the retry loop starts one pass of tryToBookInOrder over
\* settings.dateAndTimeOrder.bookingPreference.
LegacyTimerFires ==
    /\ \E t \in timers :
         IF t = TimeoutTimer
         THEN /\ timers' = timers \ {t}
              /\ logs' = logs \cup {"error: Timed out"}
              /\ UNCHANGED <<inflight, sent, legacyPc, legacyGuid, legacyKind,
                             legacyList, legacyIdx, legacyPassGuid,
                             legacyPasses>>
         ELSE /\ legacyPc = "sleep"
              /\ legacyPasses < MaxPasses
              /\ legacyPasses' = legacyPasses + 1
              /\ legacyKind' = "main"
              /\ legacyList' = settings.bookingPreference
              /\ LegacyIterate("main", settings.bookingPreference, 1, NoGuid,
                               logs, timers \ {t})
    /\ UNCHANGED <<NotLegacy, Remote>>

\* Response of ListAvailableSessions in tryToBook: the book request for the
\* session that matches, or the entry failed and eachSeries goes on.
LegacyListResponse ==
    /\ legacyPc = "list"
    /\ \E resp \in ListResponses(inflight.date) :
         LET r    == listAvailableBookings(resp)
             guid == IF r.err THEN NoGuid
                     ELSE legacyMatch(legacyList[legacyIdx], r.availables)
         IN  IF guid # NoGuid
             THEN /\ legacyPc' = "book"
                  /\ Send(Req("book", inflight.date, guid, ""))
                  /\ UNCHANGED <<legacyIdx, legacyPassGuid, legacyGuid, logs,
                                 timers>>
             ELSE LegacyIterate(legacyKind, legacyList, legacyIdx + 1,
                                legacyPassGuid,
                                logs \cup {"info: Booking failed"}, timers)
    /\ UNCHANGED <<NotLegacy, Remote, legacyKind, legacyList, legacyPasses>>

\* Response of AddBooking in tryToBook: the callback of the entry sets the
\* pass's bookedGuid or logs the failure; eachSeries goes on.
LegacyBookResponse ==
    /\ legacyPc = "book"
    /\ \E resp \in BookResponses :
         LET created == ~resp.err /\ resp.Code = OK
             r  == sendBookRequest(resp)
             b  == IF r.err THEN legacyPassGuid ELSE r.guid
             lg == logs \cup {IF r.err THEN "info: Booking failed"
                              ELSE "info: Booking succeeded"}
         IN  /\ IF created
                THEN /\ remoteBookings' = remoteBookings \cup
                            {[guid |-> nextGuid,
                              start |-> toISOString(inflight.guid)]}
                     /\ nextGuid' = nextGuid + 1
                ELSE UNCHANGED Remote
             /\ LegacyIterate(legacyKind, legacyList, legacyIdx + 1, b, lg,
                              timers)
    /\ UNCHANGED <<NotLegacy, legacyKind, legacyList, legacyPasses>>

\* Response of the queryBookInformation of keepTryingToBookAndRebook: the
\* pass over the more prioritized entries starts; when the query failed or
\* there is no such entry, the waterfall goes on with the booking made.
LegacyQuery1Response ==
    /\ legacyPc = "query1"
    /\ \E resp \in QueryResponses(inflight.guid) :
         LET r == queryBookInformation(resp)
             retryBookingPreference ==
                 legacyGetMorePrioritized(r.data.StartDateTime,
                                          settings.bookingPreference)
         IN  IF r.err \/ Len(retryBookingPreference) = 0
             THEN /\ logs' = IF r.err THEN logs \cup {WarnLine(r.error)}
                             ELSE logs
                  /\ legacyPc' = "query2"
                  /\ Send(Req("query", NoDate, legacyGuid, ""))
                  /\ UNCHANGED <<legacyKind, legacyList, legacyIdx,
                                 legacyPassGuid, legacyGuid, timers>>
             ELSE /\ legacyKind' = "rebook"
                  /\ legacyList' = retryBookingPreference
                  /\ LegacyIterate("rebook", retryBookingPreference, 1, NoGuid,
                        logs \cup {"info: Trying to rebook more prioritized"},
                        timers)
    /\ UNCHANGED <<NotLegacy, Remote, legacyPasses>>

\* Response of cancelBooking: an error is logged; either way the waterfall
\* goes on with the booking of the rebook pass.
LegacyCancelResponse ==
    /\ legacyPc = "cancel"
    /\ \E resp \in {ErrResp, FailResp, OkResp(<<>>)} :
         LET cancelled == ~resp.err /\ resp.Code = OK
         IN  /\ cancelled => \E b \in remoteBookings : b.guid = inflight.guid
             /\ remoteBookings' =
                  IF cancelled
                  THEN {b \in remoteBookings : b.guid # inflight.guid}
                  ELSE remoteBookings
             /\ logs' = IF cancelBooking(resp).err
                        THEN logs \cup {WarnLine(cancelBooking(resp).error)}
                        ELSE logs
             /\ legacyPc' = "query2"
             /\ Send(Req("query", NoDate, legacyPassGuid, ""))
    /\ UNCHANGED <<NotLegacy, nextGuid, timers, legacyGuid, legacyKind,
                   legacyList, legacyIdx, legacyPassGuid, legacyPasses>>

\* Response of the last queryBookInformation: the final callback.
LegacyQuery2Response ==
    /\ legacyPc = "query2"
    /\ \E resp \in QueryResponses(inflight.guid) :
         LegacyFinish(queryBookInformation(resp).error, logs)
    /\ UNCHANGED <<NotLegacy, Remote, legacyGuid, legacyKind, legacyList,
                   legacyIdx, legacyPassGuid, legacyPasses>>

NextLegacy ==
    \/ LegacyStart
    \/ LegacyCookiesResponse
    \/ LegacyLoginResponse
    \/ LegacyTimerFires
    \/ LegacyListResponse
    \/ LegacyBookResponse
    \/ LegacyQuery1Response
    \/ LegacyCancelResponse
    \/ LegacyQuery2Response

\* footbooker.js reads settings.dateAndTimeOrder.bookingPreference only.
InitLegacy ==
    /\ Init
    /\ settings.strategy = "dateAndTimeOrder"

SpecLegacy == InitLegacy /\ [][NextLegacy]_vars

\* The retry loop of footbooker.js is running: its timer is armed or one of
\* its passes is under way.
LegacyRetryLoopRunning ==
    \/ legacyPc = "sleep"
    \/ legacyPc \in {"list", "book"} /\ legacyKind = "main"

\* C37: in footbooker.js the timer of 180000 ms is armed for as long as the
\* retry loop is running, so that it fires, and 'Timed out' is logged, in a
\* run whose passes all fail.
C37_TimeoutArmedWhileRetrying ==
    LegacyRetryLoopRunning =>
        (TimeoutTimer \in timers \/ "error: Timed out" \in logs)

====
